---- MODULE Spec2Model ----
(***************************************************************************)
(* AFUC (Adreno firmware micro controller) decoder, lifter and the         *)
(* architecture entry points built on them.                                *)
(*                                                                         *)
(* Machine integers.  A uint32_t is the record [hi, lo] of its two 16-bit  *)
(* halves and a uint64_t the tuple <<l0, l1, l2, l3>> of its four 16-bit   *)
(* limbs (least significant first), so that every operation keeps the      *)
(* width the C++ code gives it.                                            *)
(***************************************************************************)
EXTENDS Integers, Sequences, FiniteSets, TLC

\* --------------------------------------------------------------------------
\* Bounds of the model
\* --------------------------------------------------------------------------

\* instruction addresses 0, 4, .., 4 * MaxAddrWords are analysed
MaxAddrWords == 1

\* bytes that follow the instruction word in the buffer take values 0 .. MaxTailByte
MaxTailByte == 0

\* number of instruction words of an image scanned by parallel workers
MaxImageWords == 2

\* --------------------------------------------------------------------------
\* enum AfucGpuVer, enum AfucReg (afuc.h)
\* --------------------------------------------------------------------------

AFUC_A5XX == 5
AFUC_A6XX == 6
AFUC_A7XX == 7

GpuVers == {AFUC_A5XX, AFUC_A6XX, AFUC_A7XX}

REG_R00 == 0
REG_R02 == 2
REG_LR == 27
REG_MEMDATA == 29
REG_REGDATA == 30
REG_DATA == 31
REG_ADDR == 32
REG_USRADDR == 33
REG_CARRY == 34

\* enum AfucOp: the closed set of operation tags
AfucOps ==
    {"NOP", "ADD", "ADDHI", "SUB", "SUBHI", "AND", "OR", "XOR", "NOT", "SHL",
     "USHR", "ISHR", "ROT", "MUL8", "MIN", "MAX", "CMP", "BIC", "MSB", "MOV",
     "MOVI", "SETBIT", "CLRBIT", "SETBIT_R", "UBFX", "BFI", "CWRITE", "CREAD",
     "SWRITE", "SREAD", "STORE", "LOAD", "BRNE_IMM", "BREQ_IMM", "BRNE_BIT",
     "BREQ_BIT", "JUMP", "CALL", "RET", "IRET", "WAITIN", "BL", "JUMPA",
     "JUMPR", "SRET", "SETSECURE", "INVALID"}

\* --------------------------------------------------------------------------
\* 32-bit and 64-bit unsigned arithmetic on 16-bit limbs
\* --------------------------------------------------------------------------

Pow2(n) == 2 ^ n

U32(h, l) == [hi |-> h, lo |-> l]

\* a value below 2^31 as a uint32_t
ToU32(n) == U32(n \div 65536, n % 65536)

\* w & 0x03ffffff as a number (it is below 2^26)
Low26(w) == (w.hi % 1024) * 65536 + w.lo

\* (w >> s) & (2^n - 1), for the fields the decoder extracts: a field either
\* lies in the high half (s >= 16) or inside the low 26 bits
Field(w, s, n) ==
    IF s >= 16 THEN (w.hi \div Pow2(s - 16)) % Pow2(n)
    ELSE (Low26(w) \div Pow2(s)) % Pow2(n)

Not32(x) == U32(65535 - x.hi, 65535 - x.lo)

\* bitwise or / and of two 16-bit halves, bit by bit
RECURSIVE Or16(_, _, _)
Or16(a, b, k) ==
    IF k = 0 THEN 0
    ELSE (IF a % 2 = 1 \/ b % 2 = 1 THEN 1 ELSE 0) + 2 * Or16(a \div 2, b \div 2, k - 1)

RECURSIVE And16(_, _, _)
And16(a, b, k) ==
    IF k = 0 THEN 0
    ELSE (IF a % 2 = 1 /\ b % 2 = 1 THEN 1 ELSE 0) + 2 * And16(a \div 2, b \div 2, k - 1)

Or32(x, y) == U32(Or16(x.hi, y.hi, 16), Or16(x.lo, y.lo, 16))
And32(x, y) == U32(And16(x.hi, y.hi, 16), And16(x.lo, y.lo, 16))

\* x << n over 32 bits, 0 <= n <= 31
Shl32(x, n) ==
    IF n >= 16 THEN U32((x.lo * Pow2(n - 16)) % 65536, 0)
    ELSE U32((x.hi * Pow2(n) + (x.lo * Pow2(n)) \div 65536) % 65536,
             (x.lo * Pow2(n)) % 65536)

\* x - 1 over 32 bits (0 - 1 wraps to 0xffffffff)
Dec32(x) ==
    IF x.lo > 0 THEN U32(x.hi, x.lo - 1)
    ELSE IF x.hi > 0 THEN U32(x.hi - 1, 65535)
    ELSE U32(65535, 65535)

\* static_cast<int32_t>(x): the two's-complement value
ToInt32(x) ==
    IF x.hi >= 32768 THEN (x.hi - 65536) * 65536 + x.lo
    ELSE x.hi * 65536 + x.lo

\* --------------------------------------------------------------------------
\* Register mappings (afuc.h)
\* --------------------------------------------------------------------------

\* source operands: encodings 0x00-0x1f map directly
afuc_src_reg(enc) == enc

afuc_dst_reg_AsSource(enc) == enc

\* destination operands: 0x1d is $addr, 0x1e is $usraddr
afuc_dst_reg(enc) ==
    IF enc = 29 THEN REG_ADDR
    ELSE IF enc = 30 THEN REG_USRADDR
    ELSE enc

\* --------------------------------------------------------------------------
\* ALU opcode tables (index = sub-opcode or group, tables are 0-based in C++)
\* --------------------------------------------------------------------------

AluEntry(o, n) == [op |-> o, nsrc |-> n]

s_alu2src_a6 ==
    << AluEntry("INVALID", 0), AluEntry("ADD", 2), AluEntry("ADDHI", 2),
       AluEntry("SUB", 2), AluEntry("SUBHI", 2), AluEntry("AND", 2),
       AluEntry("OR", 2), AluEntry("XOR", 2), AluEntry("NOT", 1),
       AluEntry("SHL", 2), AluEntry("USHR", 2), AluEntry("ISHR", 2),
       AluEntry("ROT", 2), AluEntry("MUL8", 2), AluEntry("MIN", 2),
       AluEntry("MAX", 2), AluEntry("CMP", 2), AluEntry("INVALID", 0),
       AluEntry("INVALID", 0), AluEntry("INVALID", 0), AluEntry("MSB", 1),
       AluEntry("INVALID", 0), AluEntry("INVALID", 0), AluEntry("INVALID", 0),
       AluEntry("INVALID", 0), AluEntry("INVALID", 0), AluEntry("INVALID", 0),
       AluEntry("INVALID", 0), AluEntry("INVALID", 0), AluEntry("INVALID", 0),
       AluEntry("INVALID", 0), AluEntry("INVALID", 0) >>

s_alu2src_a7 ==
    << AluEntry("INVALID", 0), AluEntry("ADD", 2), AluEntry("ADDHI", 2),
       AluEntry("SUB", 2), AluEntry("SUBHI", 2), AluEntry("AND", 2),
       AluEntry("OR", 2), AluEntry("XOR", 2), AluEntry("NOT", 1),
       AluEntry("BIC", 2), AluEntry("MIN", 2), AluEntry("MAX", 2),
       AluEntry("MUL8", 2), AluEntry("CMP", 2), AluEntry("INVALID", 0),
       AluEntry("INVALID", 0), AluEntry("INVALID", 0), AluEntry("INVALID", 0),
       AluEntry("SHL", 2), AluEntry("USHR", 2), AluEntry("ISHR", 2),
       AluEntry("ROT", 2), AluEntry("SETBIT_R", 2), AluEntry("INVALID", 0),
       AluEntry("INVALID", 0), AluEntry("MSB", 1), AluEntry("INVALID", 0),
       AluEntry("INVALID", 0), AluEntry("INVALID", 0), AluEntry("INVALID", 0),
       AluEntry("INVALID", 0), AluEntry("INVALID", 0) >>

AluImmEntry(o, h) == [op |-> o, has_src1 |-> h]

s_aluimm_a6 ==
    << AluImmEntry("INVALID", FALSE), AluImmEntry("ADD", TRUE),
       AluImmEntry("ADDHI", TRUE), AluImmEntry("SUB", TRUE),
       AluImmEntry("SUBHI", TRUE), AluImmEntry("AND", TRUE),
       AluImmEntry("OR", TRUE), AluImmEntry("XOR", TRUE),
       AluImmEntry("NOT", FALSE), AluImmEntry("SHL", TRUE),
       AluImmEntry("USHR", TRUE), AluImmEntry("ISHR", TRUE),
       AluImmEntry("ROT", TRUE), AluImmEntry("MUL8", TRUE),
       AluImmEntry("MIN", TRUE), AluImmEntry("MAX", TRUE),
       AluImmEntry("CMP", TRUE) >>
    \o [i \in 1..15 |-> AluImmEntry("INVALID", FALSE)]

s_aluimm_a7 ==
    << AluImmEntry("INVALID", FALSE), AluImmEntry("ADD", TRUE),
       AluImmEntry("ADDHI", TRUE), AluImmEntry("SUB", TRUE),
       AluImmEntry("SUBHI", TRUE), AluImmEntry("AND", TRUE),
       AluImmEntry("OR", TRUE), AluImmEntry("XOR", TRUE),
       AluImmEntry("NOT", FALSE), AluImmEntry("BIC", TRUE),
       AluImmEntry("MIN", TRUE), AluImmEntry("MAX", TRUE),
       AluImmEntry("MUL8", TRUE), AluImmEntry("CMP", TRUE) >>
    \o [i \in 1..18 |-> AluImmEntry("INVALID", FALSE)]

\* the table the decoder selects for a generation
Alu2SrcTable_A6Only(gpuver) == s_alu2src_a6

Alu2SrcTable(gpuver) == IF gpuver >= AFUC_A7XX THEN s_alu2src_a7 ELSE s_alu2src_a6
AluImmTable_A6Only(gpuver) == s_aluimm_a6

AluImmTable(gpuver) == IF gpuver >= AFUC_A7XX THEN s_aluimm_a7 ELSE s_aluimm_a6

\* --------------------------------------------------------------------------
\* sign_extend
\* --------------------------------------------------------------------------

sign_extend_ZeroExtends(val, bits) == ToInt32(val)

\* if (val & (1u << (bits - 1))) val |= ~((1u << bits) - 1); return (int32_t)val
sign_extend(val, bits) ==
    LET signbit == Shl32(U32(0, 1), bits - 1)
        ext == IF And32(val, signbit) # U32(0, 0)
               THEN Or32(val, Not32(Dec32(Shl32(U32(0, 1), bits))))
               ELSE val
    IN  ToInt32(ext)

\* --------------------------------------------------------------------------
\* afuc_decode
\* --------------------------------------------------------------------------

\* data[0] | (data[1] << 8) | (data[2] << 16) | (data[3] << 24)
LoadWord(data) == U32(data[3] + 256 * data[4], data[1] + 256 * data[2])

\* memset(&insn, 0, sizeof(insn)); insn.op = AFUC_INVALID; insn.raw = w
ClearedInsn(w) ==
    [op |-> "INVALID", dst |-> 0, src1 |-> 0, src2 |-> 0,
     dst_enc |-> 0, src1_enc |-> 0, src2_enc |-> 0,
     immed |-> 0, shift |-> 0, bit |-> 0, lo |-> 0, hi |-> 0, base |-> 0,
     rep |-> FALSE, xmov |-> 0, peek |-> FALSE, sds |-> 0, preincrement |-> FALSE,
     is_immed |-> FALSE, is_1src |-> FALSE,
     branch_offset |-> 0, branch_target |-> 0, nop_payload |-> 0, raw |-> w]

\* the special case brne $00, b0, #offset, which is a jump
IsJumpAlias_BitIgnored(top6, src_enc, bit_val) == top6 = 50 /\ src_enc = 0

IsJumpAlias(top6, src_enc, bit_val) == top6 = 50 /\ src_enc = 0 /\ bit_val = 0

\* branch / control flow words: bits[30:31] == 11, opcode in bits[26:31]
DecodeBranch(w, z) ==
    LET top6 == Field(w, 26, 6)
    IN  CASE top6 \in {48, 49} ->
               [z EXCEPT !.op = IF top6 = 48 THEN "BRNE_IMM" ELSE "BREQ_IMM",
                         !.src1_enc = Field(w, 21, 5),
                         !.src1 = afuc_src_reg(Field(w, 21, 5)),
                         !.immed = Field(w, 16, 5),
                         !.branch_offset = sign_extend(U32(0, Field(w, 0, 16)), 16),
                         !.is_immed = TRUE]
          [] top6 \in {50, 51} ->
               LET src_enc == Field(w, 21, 5)
                   bit_val == Field(w, 16, 5)
               IN  [z EXCEPT !.op = IF IsJumpAlias(top6, src_enc, bit_val)
                                    THEN "JUMP"
                                    ELSE IF top6 = 50 THEN "BRNE_BIT" ELSE "BREQ_BIT",
                             !.src1_enc = src_enc,
                             !.src1 = afuc_src_reg(src_enc),
                             !.bit = bit_val,
                             !.branch_offset = sign_extend(U32(0, Field(w, 0, 16)), 16)]
          [] top6 = 52 ->
               [z EXCEPT !.op = IF Field(w, 25, 1) # 0 THEN "IRET" ELSE "RET"]
          [] top6 = 53 ->
               [z EXCEPT !.op = "CALL", !.branch_target = Low26(w)]
          [] top6 = 54 ->
               [z EXCEPT !.op = "WAITIN"]
          [] top6 = 55 ->
               LET subop == Field(w, 20, 6)
               IN  IF subop = 55
                   THEN [z EXCEPT !.op = "JUMPR",
                                  !.src1_enc = Field(w, 0, 5),
                                  !.src1 = afuc_src_reg(Field(w, 0, 5))]
                   ELSE IF subop = 54 THEN [z EXCEPT !.op = "SRET"]
                   ELSE [z EXCEPT !.op = "INVALID"]
          [] top6 = 56 ->
               [z EXCEPT !.op = "BL", !.branch_target = Low26(w)]
          [] top6 = 57 ->
               [z EXCEPT !.op = "JUMPA", !.branch_target = Low26(w)]
          [] top6 = 59 ->
               [z EXCEPT !.op = "SETSECURE"]
          [] OTHER ->
               [z EXCEPT !.op = "INVALID"]

\* the special case OR with src1 = 0, which is a MOV
IsMovAlias_AnyOr(e, src1_enc) == e.op = "OR"

IsMovAlias(e, src1_enc) == e.op = "OR" /\ src1_enc = 0

\* group 0x13: ALU with two source registers; r is the record with rep set
DecodeAlu2Src(w, r, gpuver) ==
    LET sub_opc == Field(w, 0, 5)
        e == Alu2SrcTable(gpuver)[sub_opc + 1]
        f == [r EXCEPT !.peek = (Field(w, 8, 1) # 0),
                       !.xmov = Field(w, 9, 2),
                       !.dst_enc = Field(w, 11, 5),
                       !.src2_enc = Field(w, 16, 5),
                       !.src1_enc = Field(w, 21, 5),
                       !.dst = afuc_dst_reg(Field(w, 11, 5)),
                       !.src1 = afuc_src_reg(Field(w, 21, 5)),
                       !.src2 = afuc_src_reg(Field(w, 16, 5))]
    IN  IF e.op = "INVALID" /\ sub_opc # 0 THEN r
        ELSE IF IsMovAlias(e, f.src1_enc)
             THEN [f EXCEPT !.op = "MOV", !.is_1src = TRUE]
             ELSE [f EXCEPT !.op = e.op, !.is_1src = (e.nsrc = 1)]


DecodeBitOps_UnknownSelectorInvalid(w, r, gpuver) ==
    LET f == [r EXCEPT !.src1_enc = Field(w, 21, 5),
                       !.dst_enc = Field(w, 16, 5),
                       !.src1 = afuc_src_reg(Field(w, 21, 5)),
                       !.dst = afuc_dst_reg(Field(w, 16, 5))]
        sel == Field(w, 12, 4)
        setclr == [f EXCEPT !.bit = Field(w, 1, 5),
                            !.op = IF Field(w, 0, 1) # 0 THEN "SETBIT" ELSE "CLRBIT"]
    IN  IF gpuver < AFUC_A7XX \/ sel = 6 THEN setclr
        ELSE IF sel \in 2..5
        THEN [f EXCEPT !.op = << "SHL", "USHR", "ISHR", "ROT" >>[sel - 1],
                       !.immed = Field(w, 0, 12),
                       !.is_immed = TRUE]
        ELSE IF sel \in {7, 8}
        THEN [f EXCEPT !.op = IF sel = 7 THEN "UBFX" ELSE "BFI",
                       !.lo = Field(w, 0, 5), !.hi = Field(w, 5, 5)]
        ELSE f

\* group 0x12: SETBIT / CLRBIT / UBFX / BFI / a7xx shift by immediate
DecodeBitOps(w, r, gpuver) ==
    LET f == [r EXCEPT !.src1_enc = Field(w, 21, 5),
                       !.dst_enc = Field(w, 16, 5),
                       !.src1 = afuc_src_reg(Field(w, 21, 5)),
                       !.dst = afuc_dst_reg(Field(w, 16, 5))]
        sel == Field(w, 12, 4)
        shift_ops == << "INVALID", "INVALID", "SHL", "USHR", "ISHR", "ROT" >>
        setclr == [f EXCEPT !.bit = Field(w, 1, 5),
                            !.op = IF Field(w, 0, 1) # 0 THEN "SETBIT" ELSE "CLRBIT"]
    IN  IF gpuver >= AFUC_A7XX /\ sel \in 2..5
        THEN [f EXCEPT !.op = shift_ops[sel + 1],
                       !.immed = Field(w, 0, 12),
                       !.is_immed = TRUE]
        ELSE IF gpuver >= AFUC_A7XX /\ sel = 6 THEN setclr
        ELSE IF gpuver >= AFUC_A7XX /\ sel = 7
        THEN [f EXCEPT !.op = "UBFX", !.lo = Field(w, 0, 5), !.hi = Field(w, 5, 5)]
        ELSE IF gpuver >= AFUC_A7XX /\ sel = 8
        THEN [f EXCEPT !.op = "BFI", !.lo = Field(w, 0, 5), !.hi = Field(w, 5, 5)]
        ELSE setclr


IsMovi_Group11Always(top5, gpuver) == top5 = 17

\* MOVI: group 0x11 (a5xx/a6xx) or 0x0e (a7xx)
IsMovi(top5, gpuver) ==
    \/ top5 = 17 /\ gpuver <= AFUC_A6XX
    \/ top5 = 14 /\ gpuver >= AFUC_A7XX

DecodeMovi(w, r) ==
    [r EXCEPT !.op = "MOVI",
              !.immed = Field(w, 0, 16),
              !.dst_enc = Field(w, 16, 5),
              !.shift = Field(w, 21, 5),
              !.dst = afuc_dst_reg(Field(w, 16, 5)),
              !.is_immed = TRUE]

\* group 0x14: STORE
DecodeStore(w, r) ==
    [r EXCEPT !.op = "STORE",
              !.immed = Field(w, 0, 12),
              !.preincrement = (Field(w, 14, 1) # 0),
              !.src1_enc = Field(w, 16, 5),
              !.src2_enc = Field(w, 21, 5),
              !.src1 = afuc_src_reg(Field(w, 16, 5)),
              !.src2 = afuc_src_reg(Field(w, 21, 5))]


DecodeCwrite_IgnoresSds(w, r, gpuver) ==
    [r EXCEPT !.base = Field(w, 0, 12),
              !.sds = Field(w, 12, 2),
              !.preincrement = (Field(w, 14, 1) # 0),
              !.src1_enc = Field(w, 16, 5),
              !.src2_enc = Field(w, 21, 5),
              !.src1 = afuc_src_reg(Field(w, 16, 5)),
              !.src2 = afuc_src_reg(Field(w, 21, 5)),
              !.op = IF gpuver >= AFUC_A6XX /\ Field(w, 15, 1) # 0
                     THEN "SWRITE" ELSE "CWRITE"]

\* group 0x15: CWRITE / SWRITE
DecodeCwrite(w, r, gpuver) ==
    LET bit15 == Field(w, 15, 1)
        sds == Field(w, 12, 2)
    IN  [r EXCEPT !.base = Field(w, 0, 12),
                  !.sds = sds,
                  !.preincrement = (Field(w, 14, 1) # 0),
                  !.src1_enc = Field(w, 16, 5),
                  !.src2_enc = Field(w, 21, 5),
                  !.src1 = afuc_src_reg(Field(w, 16, 5)),
                  !.src2 = afuc_src_reg(Field(w, 21, 5)),
                  !.op = IF gpuver >= AFUC_A6XX /\ bit15 # 0 /\ sds = 0
                         THEN "SWRITE" ELSE "CWRITE"]


DecodeLoad_Bit15Ignored(w, r, gpuver) ==
    LET p == [r EXCEPT !.preincrement = (Field(w, 14, 1) # 0),
                       !.dst_enc = Field(w, 16, 5),
                       !.src1_enc = Field(w, 21, 5),
                       !.dst = afuc_dst_reg(Field(w, 16, 5)),
                       !.src1 = afuc_src_reg(Field(w, 21, 5))]
    IN  IF gpuver >= AFUC_A6XX
        THEN [p EXCEPT !.op = "LOAD", !.immed = Field(w, 0, 12)]
        ELSE [p EXCEPT !.op = "CREAD", !.base = Field(w, 0, 12)]

\* group 0x16: LOAD (a6xx and later) / CREAD (a5xx)
DecodeLoad(w, r, gpuver) ==
    LET p == [r EXCEPT !.preincrement = (Field(w, 14, 1) # 0)]
    IN  IF gpuver >= AFUC_A6XX
        THEN IF Field(w, 15, 1) = 0
             THEN [p EXCEPT !.op = "LOAD",
                            !.immed = Field(w, 0, 12),
                            !.dst_enc = Field(w, 16, 5),
                            !.src1_enc = Field(w, 21, 5),
                            !.dst = afuc_dst_reg(Field(w, 16, 5)),
                            !.src1 = afuc_src_reg(Field(w, 21, 5))]
             ELSE [p EXCEPT !.op = "INVALID"]
        ELSE [p EXCEPT !.op = "CREAD",
                       !.base = Field(w, 0, 12),
                       !.dst_enc = Field(w, 16, 5),
                       !.src1_enc = Field(w, 21, 5),
                       !.dst = afuc_dst_reg(Field(w, 16, 5)),
                       !.src1 = afuc_src_reg(Field(w, 21, 5))]

\* group 0x17: CREAD / SREAD
DecodeCread(w, r) ==
    [r EXCEPT !.base = Field(w, 0, 12),
              !.preincrement = (Field(w, 14, 1) # 0),
              !.dst_enc = Field(w, 16, 5),
              !.src1_enc = Field(w, 21, 5),
              !.dst = afuc_dst_reg(Field(w, 16, 5)),
              !.src1 = afuc_src_reg(Field(w, 21, 5)),
              !.op = IF Field(w, 15, 1) # 0 THEN "SREAD" ELSE "CREAD"]

\* remaining groups: ALU with a 16-bit immediate, or unknown
DecodeAluImm(w, r, gpuver) ==
    LET top5 == Field(w, 27, 5)
        e == AluImmTable(gpuver)[top5 + 1]
    IN  IF top5 >= 1 /\ top5 <= 16 /\ e.op # "INVALID"
        THEN [r EXCEPT !.op = e.op,
                       !.immed = Field(w, 0, 16),
                       !.dst_enc = Field(w, 16, 5),
                       !.src1_enc = Field(w, 21, 5),
                       !.dst = afuc_dst_reg(Field(w, 16, 5)),
                       !.src1 = afuc_src_reg(Field(w, 21, 5)),
                       !.is_immed = TRUE,
                       !.is_1src = ~e.has_src1]
        ELSE [r EXCEPT !.op = "INVALID"]

\* the record the decoder fills for word w
DecodeWord(w, gpuver) ==
    LET z == ClearedInsn(w)
        top5 == Field(w, 27, 5)
        top6 == Field(w, 26, 6)
        r == [z EXCEPT !.rep = (Field(w, 26, 1) # 0)]
    IN  IF top6 \div 16 = 3 THEN DecodeBranch(w, z)
        ELSE IF top5 = 0
             THEN [r EXCEPT !.op = "NOP", !.nop_payload = Field(w, 0, 24)]
        ELSE IF top5 = 19 THEN DecodeAlu2Src(w, r, gpuver)
        ELSE IF top5 = 18 THEN DecodeBitOps(w, r, gpuver)
        ELSE IF IsMovi(top5, gpuver) THEN DecodeMovi(w, r)
        ELSE IF top5 = 20 THEN DecodeStore(w, r)
        ELSE IF top5 = 21 THEN DecodeCwrite(w, r, gpuver)
        ELSE IF top5 = 22 THEN DecodeLoad(w, r, gpuver)
        ELSE IF top5 = 23 THEN DecodeCread(w, r)
        ELSE DecodeAluImm(w, r, gpuver)

afuc_decode_NoMemset(data, len, addr, prev, gpuver) ==
    IF len < 4 THEN [ret |-> FALSE, insn |-> prev]
    ELSE LET w == LoadWord(data)
             d == DecodeWord(w, gpuver)
             c == ClearedInsn(w)
         IN  [ret |-> TRUE,
              insn |-> [f \in DOMAIN d |->
                          IF f \notin {"op", "raw"} /\ d[f] = c[f] THEN prev[f]
                          ELSE d[f]]]

afuc_decode_NeedsMore(data, len, addr, prev, gpuver) ==
    IF len <= 4 THEN [ret |-> FALSE, insn |-> prev]
    ELSE [ret |-> TRUE, insn |-> DecodeWord(LoadWord(data), gpuver)]

\* bool afuc_decode(data, len, addr, insn, gpuver): the return value and the
\* output record; with fewer than 4 bytes the record is left as it was (prev)
afuc_decode(data, len, addr, prev, gpuver) ==
    IF len < 4 THEN [ret |-> FALSE, insn |-> prev]
    ELSE [ret |-> TRUE, insn |-> DecodeWord(LoadWord(data), gpuver)]

\* --------------------------------------------------------------------------
\* 64-bit addresses
\* --------------------------------------------------------------------------

\* a non-negative number below 2^31 as a uint64_t
ToU64(n) == << n % 65536, n \div 65536, 0, 0 >>

\* (uint64_t) of a signed 64-bit value n with -2^31 <= n < 2^31
I64ToU64(n) ==
    IF n >= 0 THEN ToU64(n)
    ELSE << n % 65536, (n \div 65536) % 65536, 65535, 65535 >>

\* a + b modulo 2^64
Add64(a, b) ==
    LET s1 == a[1] + b[1]
        s2 == a[2] + b[2] + s1 \div 65536
        s3 == a[3] + b[3] + s2 \div 65536
        s4 == a[4] + b[4] + s3 \div 65536
    IN  << s1 % 65536, s2 % 65536, s3 % 65536, s4 % 65536 >>

RelTarget_FromBranch(addr, insn) == Add64(addr, I64ToU64(insn.branch_offset * 4))

\* addr + 4 + (int64_t)insn.branch_offset * 4
RelTarget(addr, insn) == Add64(Add64(addr, ToU64(4)), I64ToU64(insn.branch_offset * 4))

AbsTarget_Unscaled(insn) == ToU64(insn.branch_target)

\* (uint64_t)insn.branch_target * 4
AbsTarget(insn) == ToU64(insn.branch_target * 4)

\* --------------------------------------------------------------------------
\* Low-level IL (afuc_il.cpp).  An IL expression or instruction is a tuple
\* whose first element names the host's builder call that made it.
\* --------------------------------------------------------------------------

Const(v) == << "Const", 4, v >>
Register(r) == << "Register", 4, r >>
ConstPointer(a) == << "ConstPointer", 4, a >>

ilReg(reg) == IF reg = REG_R00 THEN Const(ToU32(0)) ELSE Register(reg)

ilSrcReg(enc) ==
    LET reg == afuc_src_reg(enc)
    IN  IF reg = REG_R00 THEN Const(ToU32(0)) ELSE Register(reg)

ilSetDst(enc, val) ==
    LET reg == afuc_dst_reg(enc)
    IN  IF reg = REG_R00 THEN << "Nop" >> ELSE << "SetRegister", 4, reg, val >>

\* il.Intrinsic(outputs, intrinsic, params)
Intrinsic(outs, id, params) == << "Intrinsic", outs, id, params >>

ilAluBinOp(op, a, b) ==
    CASE op = "ADD" -> << "Add", 4, a, b >>
      [] op = "ADDHI" -> << "AddCarry", 4, a, b, Register(REG_CARRY) >>
      [] op = "SUB" -> << "Sub", 4, a, b >>
      [] op = "SUBHI" -> << "SubBorrow", 4, a, b, Register(REG_CARRY) >>
      [] op = "AND" -> << "And", 4, a, b >>
      [] op = "OR" -> << "Or", 4, a, b >>
      [] op = "XOR" -> << "Xor", 4, a, b >>
      [] op = "SHL" -> << "ShiftLeft", 4, a, b >>
      [] op = "USHR" -> << "LogicalShiftRight", 4, a, b >>
      [] op = "ISHR" -> << "ArithShiftRight", 4, a, b >>
      [] op = "ROT" -> << "RotateLeft", 4, a, b >>
      [] op = "MUL8" -> << "Mult", 4, << "And", 4, a, Const(ToU32(255)) >>,
                                      << "And", 4, b, Const(ToU32(255)) >> >>
      [] op = "MIN" -> Intrinsic(<< 0 >>, 0, << a, b >>)
      [] op = "MAX" -> Intrinsic(<< 0 >>, 1, << a, b >>)
      [] op = "CMP" -> Intrinsic(<< 0 >>, 2, << a, b >>)
      [] op = "BIC" -> << "And", 4, a, << "Not", 4, b >> >>
      [] OTHER -> << "Unimplemented" >>

\* 1u << n for a shift count the code computes as a uint32_t.  A count of 32
\* or more is undefined behaviour: the build either masks the count to five
\* bits or shifts everything out; ub names the outcome.
ShlOne(n, ub) ==
    IF n >= 0 /\ n <= 31 THEN Shl32(U32(0, 1), n)
    ELSE IF ub = "mask" THEN Shl32(U32(0, 1), n % 32)
    ELSE U32(0, 0)

\* (1u << width) - 1 with width = insn.hi - insn.lo + 1
FieldMask(insn, ub) == Dec32(ShlOne(insn.hi - insn.lo + 1, ub))

\* il.GetLabelForAddress(arch, a): the host knows a label for the address or not
GetLabelForAddress(host, a) == a \in host.labels

\* the IL of the two conditional-branch forms: a resolved If, or an If over
\* local labels (the indices of the IL instructions they mark: 2 is the jump
\* to the target, 3 is the end of this instruction's IL)
ilCondBranch(host, addr, insn, cond) ==
    LET target == RelTarget(addr, insn)
    IN  IF GetLabelForAddress(host, target)
           /\ GetLabelForAddress(host, Add64(addr, ToU64(8)))
        THEN << << "If", cond, << "Label", target >>,
                   << "Label", Add64(addr, ToU64(8)) >> >> >>
        ELSE << << "If", cond, << "Local", 2 >>, << "Local", 3 >> >>,
                << "Jump", ConstPointer(target) >> >>

LiftBl_SetsLr(addr, insn) ==
    << << "SetRegister", 4, REG_LR, ConstPointer(Add64(addr, ToU64(8))) >>,
       << "Call", ConstPointer(AbsTarget(insn)) >> >>

\* case AFUC_BL: il.Call(il.ConstPointer(4, target)); $lr is not written
LiftBl(addr, insn) == << << "Call", ConstPointer(AbsTarget(insn)) >> >>


LiftStore_WritesBack(insn) ==
    LET addr_expr == << "Add", 4, ilSrcReg(insn.src2_enc), Const(ToU32(insn.immed)) >>
    IN  << << "Store", 4, addr_expr, ilSrcReg(insn.src1_enc) >> >>
        \o (IF insn.preincrement
            THEN << << "SetRegister", 4, afuc_src_reg(insn.src2_enc), addr_expr >> >>
            ELSE << >>)

\* case AFUC_STORE: one il.Store to base + immed; insn.preincrement is not read
LiftStore(insn) ==
    << << "Store", 4,
          << "Add", 4, ilSrcReg(insn.src2_enc), Const(ToU32(insn.immed)) >>,
          ilSrcReg(insn.src1_enc) >> >>

LiftDefault_Empty == << >>

\* default: il.AddInstruction(il.Unimplemented())
LiftDefault == << << "Unimplemented" >> >>

\* the IL instructions afuc_get_llil appends for a record
LiftInsn(host, addr, insn) ==
    LET op == insn.op
    IN  CASE op = "NOP" -> << << "Nop" >> >>
          [] op \in {"ADD", "ADDHI", "SUB", "SUBHI", "AND", "OR", "XOR", "SHL",
                     "USHR", "ISHR", "ROT", "MUL8", "MIN", "MAX", "CMP", "BIC"} ->
               LET src1 == ilSrcReg(insn.src1_enc)
                   src2 == IF insn.is_immed THEN Const(ToU32(insn.immed))
                           ELSE ilSrcReg(insn.src2_enc)
               IN  << ilSetDst(insn.dst_enc, ilAluBinOp(op, src1, src2)) >>
          [] op = "NOT" ->
               LET src == IF insn.is_immed THEN Const(ToU32(insn.immed))
                          ELSE ilSrcReg(insn.src2_enc)
               IN  << ilSetDst(insn.dst_enc, << "Not", 4, src >>) >>
          [] op = "MSB" ->
               << ilSetDst(insn.dst_enc,
                           Intrinsic(<< 0 >>, 3, << ilSrcReg(insn.src2_enc) >>)) >>
          [] op = "MOV" ->
               << ilSetDst(insn.dst_enc, ilSrcReg(insn.src2_enc)) >>
          [] op = "MOVI" ->
               << ilSetDst(insn.dst_enc,
                           Const(Shl32(ToU32(insn.immed), insn.shift))) >>
          [] op = "SETBIT" ->
               << ilSetDst(insn.dst_enc,
                           << "Or", 4, ilSrcReg(insn.src1_enc),
                              Const(Shl32(U32(0, 1), insn.bit)) >>) >>
          [] op = "CLRBIT" ->
               << ilSetDst(insn.dst_enc,
                           << "And", 4, ilSrcReg(insn.src1_enc),
                              Const(Not32(Shl32(U32(0, 1), insn.bit))) >>) >>
          [] op = "SETBIT_R" ->
               << ilSetDst(insn.dst_enc,
                           << "Or", 4, ilSrcReg(insn.src1_enc),
                              << "ShiftLeft", 4, Const(ToU32(1)),
                                 ilSrcReg(insn.src2_enc) >> >>) >>
          [] op = "UBFX" ->
               << ilSetDst(insn.dst_enc,
                           << "And", 4,
                              << "LogicalShiftRight", 4, ilSrcReg(insn.src1_enc),
                                 Const(ToU32(insn.lo)) >>,
                              Const(FieldMask(insn, host.ub)) >>) >>
          [] op = "BFI" ->
               LET src == ilSrcReg(insn.src1_enc)
                   dst_val == ilReg(afuc_dst_reg(insn.dst_enc))
                   mask == Shl32(FieldMask(insn, host.ub), insn.lo)
                   inserted == << "And", 4,
                                  << "ShiftLeft", 4, src, Const(ToU32(insn.lo)) >>,
                                  Const(mask) >>
                   cleared == << "And", 4, dst_val, Const(Not32(mask)) >>
               IN  << ilSetDst(insn.dst_enc, << "Or", 4, cleared, inserted >>) >>
          [] op = "LOAD" ->
               << ilSetDst(insn.dst_enc,
                           << "Load", 4,
                              << "Add", 4, ilSrcReg(insn.src1_enc),
                                 Const(ToU32(insn.immed)) >> >>) >>
          [] op = "STORE" -> LiftStore(insn)
          [] op \in {"CWRITE", "SWRITE"} ->
               << << "Store", 4,
                     << "Add", 4, ilSrcReg(insn.src2_enc), Const(ToU32(insn.base)) >>,
                     ilSrcReg(insn.src1_enc) >> >>
          [] op \in {"CREAD", "SREAD"} ->
               << ilSetDst(insn.dst_enc,
                           << "Load", 4,
                              << "Add", 4, ilSrcReg(insn.src1_enc),
                                 Const(ToU32(insn.base)) >> >>) >>
          [] op \in {"BRNE_IMM", "BREQ_IMM"} ->
               LET src == ilSrcReg(insn.src1_enc)
                   imm == Const(ToU32(insn.immed))
                   cond == IF op = "BREQ_IMM"
                           THEN << "CompareEqual", 4, src, imm >>
                           ELSE << "CompareNotEqual", 4, src, imm >>
               IN  ilCondBranch(host, addr, insn, cond)
          [] op \in {"BRNE_BIT", "BREQ_BIT"} ->
               LET bit_test == << "And", 4, ilSrcReg(insn.src1_enc),
                                  Const(Shl32(U32(0, 1), insn.bit)) >>
                   cond == IF op = "BREQ_BIT"
                           THEN << "CompareNotEqual", 4, bit_test, Const(ToU32(0)) >>
                           ELSE << "CompareEqual", 4, bit_test, Const(ToU32(0)) >>
               IN  ilCondBranch(host, addr, insn, cond)
          [] op = "JUMP" ->
               LET target == RelTarget(addr, insn)
               IN  IF GetLabelForAddress(host, target)
                   THEN << << "Goto", << "Label", target >> >> >>
                   ELSE << << "Jump", ConstPointer(target) >> >>
          [] op = "CALL" -> << << "Call", ConstPointer(AbsTarget(insn)) >> >>
          [] op = "BL" -> LiftBl(addr, insn)
          [] op = "JUMPA" -> << << "Jump", ConstPointer(AbsTarget(insn)) >> >>
          [] op = "JUMPR" -> << << "Jump", ilSrcReg(insn.src1_enc) >> >>
          [] op \in {"RET", "IRET"} -> << << "Return", Const(ToU32(0)) >> >>
          [] op = "SRET" -> << << "Return", Register(REG_LR) >> >>
          [] op = "WAITIN" -> << << "Return", Const(ToU32(0)) >> >>
          [] op = "SETSECURE" ->
               << Intrinsic(<< >>, 4, << Register(REG_R02) >>) >>
          [] OTHER -> LiftDefault

\* bool afuc_get_llil(arch, addr, il, insn, gpuver): appends to the IL
\* function il and returns true
afuc_get_llil(host, addr, il, insn, gpuver) ==
    [ret |-> TRUE, il |-> il \o LiftInsn(host, addr, insn)]

\* --------------------------------------------------------------------------
\* Names (decoder and afuc_regs.cpp)
\* --------------------------------------------------------------------------

s_gpr_names ==
    << "$00", "$01", "$02", "$03", "$04", "$05", "$06", "$07",
       "$08", "$09", "$0a", "$0b", "$0c", "$0d", "$0e", "$0f",
       "$10", "$11", "$12", "$13", "$14", "$15", "$16", "$17",
       "$18", "$19", "$sp", "$lr" >>

afuc_src_reg_name(enc) ==
    IF enc < 28 THEN s_gpr_names[enc + 1]
    ELSE CASE enc = 28 -> "$rem"
           [] enc = 29 -> "$memdata"
           [] enc = 30 -> "$regdata"
           [] enc = 31 -> "$data"
           [] OTHER -> "?"

afuc_dst_reg_name(enc) ==
    IF enc < 28 THEN s_gpr_names[enc + 1]
    ELSE CASE enc = 28 -> "$rem"
           [] enc = 29 -> "$addr"
           [] enc = 30 -> "$usraddr"
           [] enc = 31 -> "$data"
           [] OTHER -> "?"

afuc_op_name(op) ==
    CASE op = "NOP" -> "nop" [] op = "ADD" -> "add" [] op = "ADDHI" -> "addhi"
      [] op = "SUB" -> "sub" [] op = "SUBHI" -> "subhi" [] op = "AND" -> "and"
      [] op = "OR" -> "or" [] op = "XOR" -> "xor" [] op = "NOT" -> "not"
      [] op = "SHL" -> "shl" [] op = "USHR" -> "ushr" [] op = "ISHR" -> "ishr"
      [] op = "ROT" -> "rot" [] op = "MUL8" -> "mul8" [] op = "MIN" -> "min"
      [] op = "MAX" -> "max" [] op = "CMP" -> "cmp" [] op = "BIC" -> "bic"
      [] op = "MSB" -> "msb" [] op = "MOV" -> "mov" [] op = "MOVI" -> "mov"
      [] op = "SETBIT" -> "setbit" [] op = "CLRBIT" -> "clrbit"
      [] op = "SETBIT_R" -> "setbit" [] op = "UBFX" -> "ubfx" [] op = "BFI" -> "bfi"
      [] op = "CWRITE" -> "cwrite" [] op = "CREAD" -> "cread"
      [] op = "SWRITE" -> "swrite" [] op = "SREAD" -> "sread"
      [] op = "STORE" -> "store" [] op = "LOAD" -> "load"
      [] op = "BRNE_IMM" -> "brne" [] op = "BREQ_IMM" -> "breq"
      [] op = "BRNE_BIT" -> "brne" [] op = "BREQ_BIT" -> "breq"
      [] op = "JUMP" -> "jump" [] op = "CALL" -> "call" [] op = "RET" -> "ret"
      [] op = "IRET" -> "iret" [] op = "WAITIN" -> "waitin" [] op = "BL" -> "bl"
      [] op = "JUMPA" -> "jumpa" [] op = "JUMPR" -> "jump" [] op = "SRET" -> "sret"
      [] op = "SETSECURE" -> "setsecure"
      [] OTHER -> "???"

s_a5xx_ctrl ==
    <<
       << 16, "REG_WRITE_ADDR" >>, << 17, "REG_WRITE" >>, << 56, "STORE_HI" >>,
       << 176, "IB1_BASE" >>, << 178, "IB1_DWORDS" >>, << 180, "IB2_BASE" >>,
       << 182, "IB2_DWORDS" >>, << 184, "MEM_READ_ADDR" >>, << 186, "MEM_READ_DWORDS" >> >>

s_a6xx_ctrl ==
    <<
       << 1, "RB_RPTR" >>, << 16, "IB1_BASE" >>, << 18, "IB1_DWORDS" >>,
       << 20, "IB2_BASE" >>, << 22, "IB2_DWORDS" >>, << 24, "MEM_READ_ADDR" >>,
       << 26, "MEM_READ_DWORDS" >>, << 36, "REG_WRITE_ADDR" >>, << 37, "REG_WRITE" >>,
       << 38, "REG_READ_DWORDS" >>, << 39, "REG_READ_ADDR" >>, << 48, "WFI_PEND_INCR" >>,
       << 49, "QUERY_PEND_INCR" >>, << 50, "CACHE_FLUSH_PEND_INCR" >>, << 56, "WFI_PEND_CTR" >>,
       << 57, "QUERY_PEND_CTR" >>, << 58, "CACHE_FLUSH_PEND_CTR" >>, << 65, "DRAW_STATE_SEL" >>,
       << 66, "SDS_BASE" >>, << 68, "SDS_DWORDS" >>, << 69, "DRAW_STATE_BASE" >>,
       << 71, "DRAW_STATE_HDR" >>, << 73, "DRAW_STATE_ACTIVE_BITMASK" >>, << 74, "DRAW_STATE_SET_HDR" >>,
       << 76, "DRAW_STATE_SET_HDR_LPAC" >>, << 77, "DRAW_STATE_SET_PENDING" >>, << 79, "DRAW_STATE_SET_BASE_LPAC" >>,
       << 84, "IB_LEVEL" >>, << 88, "LOAD_STORE_HI" >>, << 91, "REG_READ_TEST_RESULT" >>,
       << 93, "PERFCNTR_CNTL" >>, << 96, "PACKET_TABLE_WRITE_ADDR" >>, << 97, "PACKET_TABLE_WRITE" >>,
       << 98, "ZAP_SHADER_ADDR" >>, << 110, "PREEMPTION_TIMER" >>, << 111, "PREEMPTION_TIMER_CNTL" >>,
       << 112, "CONTEXT_SWITCH_CNTL" >>, << 113, "PREEMPT_ENABLE" >>, << 114, "PREEMPT_TRIGGER" >>,
       << 117, "SECURE_MODE" >>, << 120, "PREEMPT_COOKIE" >>, << 152, "MARKER" >>,
       << 272, "SAVE_REGISTER_SMMU_INFO" >>, << 274, "SAVE_REGISTER_PRIV_NON_SECURE" >>, << 276, "SAVE_REGISTER_PRIV_SECURE" >>,
       << 278, "SAVE_REGISTER_NON_PRIV" >>, << 280, "SAVE_REGISTER_COUNTER" >>, << 294, "PREEMPTION_INFO" >>,
       << 298, "MARKER_TEMP" >>, << 299, "MODE_BITMASK" >>, << 368, "SCRATCH_REG0" >>,
       << 369, "SCRATCH_REG1" >>, << 370, "SCRATCH_REG2" >>, << 371, "SCRATCH_REG3" >>,
       << 372, "SCRATCH_REG4" >>, << 373, "SCRATCH_REG5" >>, << 374, "SCRATCH_REG6" >>,
       << 375, "SCRATCH_REG7" >>, << 512, "THREAD_SYNC" >> >>

s_a7xx_ctrl ==
    <<
       << 1, "RB_RPTR" >>, << 4, "PREEMPT_INSTR" >>, << 16, "IB1_BASE" >>,
       << 18, "IB1_DWORDS" >>, << 20, "IB2_BASE" >>, << 22, "IB2_DWORDS" >>,
       << 24, "IB3_BASE" >>, << 26, "IB3_DWORDS" >>, << 28, "MEM_READ_ADDR" >>,
       << 30, "MEM_READ_DWORDS" >>, << 48, "WFI_PEND_INCR" >>, << 49, "QUERY_PEND_INCR" >>,
       << 50, "CACHE_CLEAN_PEND_INCR" >>, << 54, "REG_WRITE_ADDR" >>, << 55, "REG_WRITE" >>,
       << 56, "REG_READ_DWORDS" >>, << 57, "REG_READ_ADDR" >>, << 58, "CACHE_CLEAN_PEND_CTR" >>,
       << 62, "WFI_PEND_CTR" >>, << 63, "QUERY_PEND_CTR" >>, << 65, "DRAW_STATE_SEL" >>,
       << 66, "SDS_BASE" >>, << 68, "SDS_DWORDS" >>, << 69, "DRAW_STATE_BASE" >>,
       << 71, "DRAW_STATE_HDR" >>, << 73, "DRAW_STATE_ACTIVE_BITMASK" >>, << 75, "MODE_BITMASK" >>,
       << 76, "DRAW_STATE_SET_HDR" >>, << 77, "DRAW_STATE_SET_PENDING" >>, << 79, "DRAW_STATE_SET_BASE" >>,
       << 84, "IB_LEVEL" >>, << 88, "LOAD_STORE_HI" >>, << 91, "REG_READ_TEST_RESULT" >>,
       << 93, "PERFCNTR_CNTL" >>, << 96, "PACKET_TABLE_WRITE_ADDR" >>, << 97, "PACKET_TABLE_WRITE" >>,
       << 110, "PREEMPTION_TIMER" >>, << 111, "PREEMPTION_TIMER_CNTL" >>, << 112, "CONTEXT_SWITCH_CNTL" >>,
       << 113, "PREEMPT_ENABLE" >>, << 114, "PREEMPT_TRIGGER" >>, << 117, "SECURE_MODE" >>,
       << 120, "PREEMPT_COOKIE" >>, << 152, "MARKER" >>, << 160, "LOAD_STORE_RANGE_MIN" >>,
       << 161, "LOAD_STORE_RANGE_LEN" >>, << 177, "COPROCESSOR_LOCK" >>, << 212, "APERTURE_CNTL" >>,
       << 213, "APERTURE_CNTL_PREEMPT" >>, << 214, "BV_INSTR_BASE" >>, << 216, "BV_CNTL" >>,
       << 217, "LPAC_INSTR_BASE" >>, << 219, "LPAC_CNTL" >>, << 226, "GLOBAL_TIMESTAMP" >>,
       << 227, "LOCAL_TIMESTAMP" >>, << 575, "THREAD_SYNC" >> >>

s_sqe_regs ==
    <<
       << 4, "PREEMPT_INSTR" >>, << 5, "SP" >>, << 8, "STACK0" >>,
       << 9, "STACK1" >>, << 10, "STACK2" >>, << 11, "STACK3" >>,
       << 12, "STACK4" >>, << 13, "STACK5" >>, << 14, "STACK6" >>,
       << 15, "STACK7" >> >>

s_a6xx_pipe ==
    <<
       << 128, "WAIT_FOR_IDLE" >>, << 129, "WFI_PEND_DECR" >>, << 130, "QUERY_PEND_DECR" >>,
       << 132, "WAIT_MEM_WRITES" >>, << 160, "NRT_ADDR" >>, << 162, "NRT_DATA" >>,
       << 231, "EVENT_CMD" >>, << 232, "EVENT_TS_ADDR" >>, << 234, "EVENT_TS_CTRL" >>,
       << 235, "EVENT_TS_DATA" >> >>

s_a7xx_pipe ==
    <<
       << 129, "WFI_PEND_DECR" >>, << 130, "QUERY_PEND_DECR" >>, << 132, "WAIT_MEM_WRITES" >>,
       << 135, "WAIT_FOR_IDLE" >>, << 160, "NRT_ADDR" >>, << 162, "NRT_DATA" >>,
       << 231, "EVENT_CMD" >>, << 232, "EVENT_TS_ADDR" >>, << 234, "EVENT_TS_CTRL" >>,
       << 235, "EVENT_TS_DATA" >> >>

\* linear scan of a RegEntry table; a null result is [found |-> FALSE]
RECURSIVE lookup(_, _, _)
lookup(table, i, offset) ==
    IF i > Len(table) THEN [found |-> FALSE, name |-> ""]
    ELSE IF table[i][1] = offset THEN [found |-> TRUE, name |-> table[i][2]]
    ELSE lookup(table, i + 1, offset)

afuc_ctrl_reg_name(gpuver, offset) ==
    CASE gpuver = AFUC_A5XX -> lookup(s_a5xx_ctrl, 1, offset)
      [] gpuver = AFUC_A6XX -> lookup(s_a6xx_ctrl, 1, offset)
      [] gpuver = AFUC_A7XX -> lookup(s_a7xx_ctrl, 1, offset)
      [] OTHER -> [found |-> FALSE, name |-> ""]

afuc_sqe_reg_name(offset) == lookup(s_sqe_regs, 1, offset)

afuc_pipe_reg_name(gpuver, offset) ==
    CASE gpuver = AFUC_A6XX -> lookup(s_a6xx_pipe, 1, offset)
      [] gpuver = AFUC_A7XX -> lookup(s_a7xx_pipe, 1, offset)
      [] OTHER -> [found |-> FALSE, name |-> ""]

\* --------------------------------------------------------------------------
\* AfucArchitecture (arch_afuc.cpp)
\* --------------------------------------------------------------------------

InfoBranches_WaitinFallsThrough(addr, insn) ==
    LET op == insn.op
    IN  CASE op \in {"BRNE_IMM", "BREQ_IMM", "BRNE_BIT", "BREQ_BIT"} ->
               << << "TrueBranch", RelTarget(addr, insn), TRUE >>,
                  << "FalseBranch", Add64(addr, ToU64(8)), TRUE >> >>
          [] op = "JUMP" -> << << "UnconditionalBranch", RelTarget(addr, insn), TRUE >> >>
          [] op \in {"CALL", "BL"} -> << << "CallDestination", AbsTarget(insn), TRUE >> >>
          [] op = "JUMPA" -> << << "UnconditionalBranch", AbsTarget(insn), TRUE >> >>
          [] op = "JUMPR" -> << << "UnresolvedBranch", ToU64(0), TRUE >> >>
          [] op \in {"RET", "IRET", "SRET"} -> << << "FunctionReturn", ToU64(0), TRUE >> >>
          [] OTHER -> << >>

\* the branches GetInstructionInfo adds for a decoded record: <<kind, target,
\* delay slot>>, the arguments of result.AddBranch(kind, target, nullptr, true)
InfoBranches(addr, insn) ==
    LET op == insn.op
    IN  CASE op \in {"BRNE_IMM", "BREQ_IMM", "BRNE_BIT", "BREQ_BIT"} ->
               << << "TrueBranch", RelTarget(addr, insn), TRUE >>,
                  << "FalseBranch", Add64(addr, ToU64(8)), TRUE >> >>
          [] op = "JUMP" -> << << "UnconditionalBranch", RelTarget(addr, insn), TRUE >> >>
          [] op = "CALL" -> << << "CallDestination", AbsTarget(insn), TRUE >> >>
          [] op = "BL" -> << << "CallDestination", AbsTarget(insn), TRUE >> >>
          [] op = "JUMPA" -> << << "UnconditionalBranch", AbsTarget(insn), TRUE >> >>
          [] op = "JUMPR" -> << << "UnresolvedBranch", ToU64(0), TRUE >> >>
          [] op \in {"RET", "IRET", "SRET"} -> << << "FunctionReturn", ToU64(0), TRUE >> >>
          [] op = "WAITIN" -> << << "FunctionReturn", ToU64(0), TRUE >> >>
          [] OTHER -> << >>

\* bool GetInstructionInfo(data, addr, maxLen, result): the return value and
\* the InstructionInfo, which is left as it was when the decoder fails
GetInstructionInfo(m_gpuver, data, addr, maxLen, result) ==
    LET d == afuc_decode(data, maxLen, addr, ClearedInsn(U32(0, 0)), m_gpuver)
    IN  IF ~d.ret THEN [ret |-> FALSE, result |-> result]
        ELSE [ret |-> TRUE,
              result |-> [length |-> 4,
                          branches |-> result.branches \o InfoBranches(addr, d.insn)]]

\* text tokens: <<type, text>> or <<type, text, value>>; a text that snprintf
\* renders is the pair of its format and its argument
Num(fmt, v) == << fmt, v >>

TextPrefix(insn) ==
    (IF insn.rep THEN "(rep)" ELSE "")
    \o (CASE insn.sds = 1 -> "(sds1)" [] insn.sds = 2 -> "(sds2)"
          [] insn.sds = 3 -> "(sds3)" [] OTHER -> "")
    \o (CASE insn.xmov = 1 -> "(xmov1)" [] insn.xmov = 2 -> "(xmov2)"
          [] insn.xmov = 3 -> "(xmov3)" [] OTHER -> "")
    \o (IF insn.peek THEN "(peek)" ELSE "")

Sep == << "OperandSeparatorToken", ", " >>
RegTok(name) == << "RegisterToken", name >>
IntTok(fmt, v) == << "IntegerToken", Num(fmt, v), v >>
AddrTok(target) == << "PossibleAddressToken", Num("#0x%llx", target), target >>

\* the [base + offset] operand of the register and memory access forms
MemOperand(basename, off, preincrement) ==
    << << "BeginMemoryOperandToken", "[" >>, RegTok(basename),
       << "TextToken", " + " >>, off, << "EndMemoryOperandToken", "]" >> >>
    \o (IF preincrement THEN << << "TextToken", "!" >> >> ELSE << >>)

\* the named or numeric register offset of CWRITE/SWRITE/CREAD/SREAD
CtrlOffset(m_gpuver, insn, sqe) ==
    LET rname == IF sqe THEN afuc_sqe_reg_name(insn.base)
                 ELSE afuc_ctrl_reg_name(m_gpuver, insn.base)
    IN  IF rname.found
        THEN << "TextToken", (IF sqe THEN "%" ELSE "@") \o rname.name >>
        ELSE IntTok("0x%03x", insn.base)

\* the pipe register annotation of a MOVI to $addr with a shift of 16 or more
MoviAnnotation(m_gpuver, insn) ==
    LET val == And32(Shl32(ToU32(insn.immed), insn.shift), Not32(ToU32(262144)))
        pname == afuc_pipe_reg_name(m_gpuver, val.hi \div 256)
    IN  IF insn.dst_enc = 29 /\ insn.shift >= 16
           /\ And32(val, U32(255, 65535)) = U32(0, 0) /\ pname.found
        THEN << << "TextToken", "  ; |" \o pname.name >> >>
        ELSE << >>

TextOperands(m_gpuver, addr, insn) ==
    LET op == insn.op
    IN  CASE op \in {"ADD", "ADDHI", "SUB", "SUBHI", "AND", "OR", "XOR", "SHL",
                     "USHR", "ISHR", "ROT", "MUL8", "MIN", "MAX", "CMP", "BIC",
                     "SETBIT_R"} ->
               << RegTok(afuc_dst_reg_name(insn.dst_enc)), Sep >>
               \o (IF ~insn.is_1src
                   THEN << RegTok(afuc_src_reg_name(insn.src1_enc)), Sep >>
                   ELSE << >>)
               \o (IF insn.is_immed THEN << IntTok("0x%x", insn.immed) >>
                   ELSE << RegTok(afuc_src_reg_name(insn.src2_enc)) >>)
          [] op \in {"NOT", "MSB"} ->
               << RegTok(afuc_dst_reg_name(insn.dst_enc)), Sep,
                  IF insn.is_immed THEN IntTok("0x%x", insn.immed)
                  ELSE RegTok(afuc_src_reg_name(insn.src2_enc)) >>
          [] op = "MOV" ->
               << RegTok(afuc_dst_reg_name(insn.dst_enc)), Sep,
                  RegTok(afuc_src_reg_name(insn.src2_enc)) >>
          [] op = "MOVI" ->
               << RegTok(afuc_dst_reg_name(insn.dst_enc)), Sep,
                  IntTok("0x%x", insn.immed) >>
               \o (IF insn.shift # 0
                   THEN << << "TextToken", " << " >>, IntTok("%u", insn.shift) >>
                   ELSE << >>)
               \o MoviAnnotation(m_gpuver, insn)
          [] op \in {"SETBIT", "CLRBIT"} ->
               << RegTok(afuc_dst_reg_name(insn.dst_enc)), Sep,
                  RegTok(afuc_src_reg_name(insn.src1_enc)), Sep,
                  IntTok("b%u", insn.bit) >>
          [] op \in {"UBFX", "BFI"} ->
               << RegTok(afuc_dst_reg_name(insn.dst_enc)), Sep,
                  RegTok(afuc_src_reg_name(insn.src1_enc)), Sep,
                  IntTok("b%u", insn.lo), Sep, IntTok("b%u", insn.hi) >>
          [] op \in {"CWRITE", "SWRITE"} ->
               << RegTok(afuc_src_reg_name(insn.src1_enc)), Sep >>
               \o MemOperand(afuc_src_reg_name(insn.src2_enc),
                             CtrlOffset(m_gpuver, insn, op = "SWRITE"),
                             insn.preincrement)
          [] op \in {"CREAD", "SREAD"} ->
               << RegTok(afuc_dst_reg_name(insn.dst_enc)), Sep >>
               \o MemOperand(afuc_src_reg_name(insn.src1_enc),
                             CtrlOffset(m_gpuver, insn, op = "SREAD"),
                             insn.preincrement)
          [] op = "STORE" ->
               << RegTok(afuc_src_reg_name(insn.src1_enc)), Sep >>
               \o MemOperand(afuc_src_reg_name(insn.src2_enc),
                             IntTok("0x%03x", insn.immed), insn.preincrement)
          [] op = "LOAD" ->
               << RegTok(afuc_dst_reg_name(insn.dst_enc)), Sep >>
               \o MemOperand(afuc_src_reg_name(insn.src1_enc),
                             IntTok("0x%03x", insn.immed), insn.preincrement)
          [] op \in {"BRNE_IMM", "BREQ_IMM"} ->
               << RegTok(afuc_src_reg_name(insn.src1_enc)), Sep,
                  IntTok("0x%x", insn.immed), Sep,
                  AddrTok(RelTarget(addr, insn)) >>
          [] op \in {"BRNE_BIT", "BREQ_BIT"} ->
               << RegTok(afuc_src_reg_name(insn.src1_enc)), Sep,
                  IntTok("b%u", insn.bit), Sep,
                  AddrTok(RelTarget(addr, insn)) >>
          [] op = "JUMP" -> << AddrTok(RelTarget(addr, insn)) >>
          [] op \in {"CALL", "BL"} -> << AddrTok(AbsTarget(insn)) >>
          [] op = "JUMPA" -> << AddrTok(AbsTarget(insn)) >>
          [] op = "JUMPR" -> << RegTok(afuc_src_reg_name(insn.src1_enc)) >>
          [] op = "SETSECURE" ->
               << RegTok("$02"), Sep, AddrTok(Add64(addr, ToU64(4 + 3 * 4))) >>
          [] OTHER -> << >>

\* bool GetInstructionText(data, addr, len, result)
GetInstructionText(m_gpuver, data, addr, len, result) ==
    LET d == afuc_decode(data, len, addr, ClearedInsn(U32(0, 0)), m_gpuver)
        insn == d.insn
        prefix == TextPrefix(insn)
        mnem == afuc_op_name(insn.op)
        mlen == Len(mnem) + Len(prefix)
        pad == IF mlen < 10 THEN 10 - mlen ELSE 1
    IN  IF ~d.ret THEN [ret |-> FALSE, len |-> len, result |-> result]
        ELSE IF insn.op = "INVALID"
        THEN [ret |-> TRUE, len |-> 4,
              result |-> result \o << << "TextToken", Num("[%08x]", insn.raw) >> >>]
        ELSE [ret |-> TRUE, len |-> 4,
              result |-> result
                  \o (IF prefix # "" THEN << << "TextToken", prefix >> >> ELSE << >>)
                  \o << << "InstructionToken", mnem >>,
                        << "TextToken", << "spaces", pad >> >> >>
                  \o TextOperands(m_gpuver, addr, insn)]

\* bool GetInstructionLowLevelIL(data, addr, len, il)
GetInstructionLowLevelIL(m_gpuver, host, data, addr, len, il) ==
    LET d == afuc_decode(data, len, addr, ClearedInsn(U32(0, 0)), m_gpuver)
    IN  IF ~d.ret
        THEN [ret |-> FALSE, len |-> len, il |-> il \o << << "Undefined" >> >>]
        ELSE IF d.insn.op = "INVALID"
        THEN [ret |-> FALSE, len |-> 4, il |-> il \o << << "Undefined" >> >>]
        ELSE LET r == afuc_get_llil(host, addr, il, d.insn, m_gpuver)
             IN  [ret |-> r.ret, len |-> 4, il |-> r.il]


\* the bytes memcpy(data, &nop, 4) would write on a big-endian host
ConvertToNop_BigEndian(m_gpuver, data, addr, len) ==
    IF len < 4 THEN [ret |-> FALSE, data |-> data]
    ELSE [ret |-> TRUE,
          data |-> (IF m_gpuver >= AFUC_A6XX THEN << 1, 0, 0, 0 >> ELSE << 0, 0, 0, 0 >>)
                   \o SubSeq(data, 5, Len(data))]

\* bool ConvertToNop(data, addr, len): the return value and the buffer after
\* the call; memcpy stores the word in the byte order of the host, which is
\* little-endian on every platform the host application runs on
ConvertToNop(m_gpuver, data, addr, len) ==
    IF len < 4 THEN [ret |-> FALSE, data |-> data]
    ELSE LET nop == IF m_gpuver >= AFUC_A6XX THEN U32(256, 0) ELSE U32(0, 0)
         IN  [ret |-> TRUE,
              data |-> << nop.lo % 256, nop.lo \div 256, nop.hi % 256, nop.hi \div 256 >>
                       \o SubSeq(data, 5, Len(data))]

\* --------------------------------------------------------------------------
\* Firmware view (arch_afuc.cpp): generation detection and loading
\* --------------------------------------------------------------------------

\* A firmware file is [len, code]: its length in bytes and the whole 32-bit
\* words that follow the 4-byte header, each as its four bytes (code[1] is
\* the word at file offset 4).

afuc_detect_gpuver_NibbleOnly(fw_id) ==
    IF fw_id >= 1792 THEN AFUC_A7XX
    ELSE IF fw_id >= 1536 THEN AFUC_A6XX
    ELSE IF fw_id >= 1280 THEN AFUC_A5XX
    ELSE AFUC_A6XX

\* static AfucGpuVer afuc_detect_gpuver(uint32_t fw_id)
afuc_detect_gpuver(fw_id) ==
    IF fw_id \in {1840, 1856, 1298, 1312} THEN AFUC_A7XX      \* 0x730 0x740 0x512 0x520
    ELSE IF fw_id \in {1774, 1756, 1757} THEN AFUC_A6XX       \* 0x6ee 0x6dc 0x6dd
    ELSE IF fw_id = 1535 THEN AFUC_A5XX                       \* 0x5ff
    ELSE IF fw_id >= 1792 THEN AFUC_A7XX                      \* >= 0x700
    ELSE IF fw_id >= 1536 THEN AFUC_A6XX                      \* >= 0x600
    ELSE IF fw_id >= 1280 /\ fw_id < 1328 THEN AFUC_A7XX      \* 0x500 .. 0x52f
    ELSE IF fw_id >= 1280 THEN AFUC_A5XX
    ELSE AFUC_A6XX

afuc_get_fwid_Bits8(file) ==
    IF file.len < 8 THEN 0
    ELSE LET word1 == LoadWord(file.code[1])
         IN  (word1.hi % 16) * 256 + word1.lo \div 256

\* static uint32_t afuc_get_fwid(BinaryView* data): (word1 >> 12) & 0xfff of
\* the four bytes read at offset 4
afuc_get_fwid(file) ==
    IF file.len < 8 THEN 0
    ELSE LET word1 == LoadWord(file.code[1])
         IN  (word1.hi % 256) * 16 + word1.lo \div 4096

\* the switch of AfucBinaryView::Init from the generation to the name of a
\* registered architecture
ArchName(gpuver) ==
    IF gpuver = AFUC_A5XX THEN "afuc-a5xx"
    ELSE IF gpuver = AFUC_A7XX THEN "afuc-a7xx"
    ELSE "afuc-a6xx"

\* Architecture::GetByName over the architectures CorePluginInit registers:
\* the m_gpuver of the architecture of that name
GetByName(arch_name) ==
    IF arch_name = "afuc-a5xx" THEN AFUC_A5XX
    ELSE IF arch_name = "afuc-a6xx" THEN AFUC_A6XX
    ELSE AFUC_A7XX

\* the view before Init
NoView(parseOnly) ==
    [ret |-> FALSE, m_parseOnly |-> parseOnly, fw_id |-> 0, arch |-> "",
     platform |-> FALSE, segment |-> << >>, entry |-> << >>]

\* bool AfucBinaryView::Init(): plat tells whether the architecture has a
\* standalone platform
AfucBinaryView_Init(view, file, plat) ==
    IF file.len < 8 THEN view
    ELSE LET fw_id     == afuc_get_fwid(file)
             gpuver    == afuc_detect_gpuver(fw_id)
             arch_name == ArchName(gpuver)
             codeLen   == file.len - 4
         IN  [ret |-> TRUE, m_parseOnly |-> view.m_parseOnly, fw_id |-> fw_id,
              arch |-> arch_name, platform |-> plat,
              segment |-> << [start |-> 0, length |-> codeLen,
                              dataOffset |-> 4, dataLength |-> codeLen] >>,
              entry |-> IF ~view.m_parseOnly /\ plat THEN << 0 >> ELSE << >>]

\* --------------------------------------------------------------------------
\* The analysed inputs: instruction words, buffers, addresses
\* --------------------------------------------------------------------------

\* the word with opcode bits[26:31] = top6, bits[21:25] = f21, bits[16:20] = f16
\* and low half low16
MkWord(top6, f21, f16, low16) == U32(top6 * 1024 + f21 * 32 + f16, low16)

\* the little-endian bytes of a word
Bytes(w) == << w.lo % 256, w.lo \div 256, w.hi % 256, w.hi \div 256 >>

\* 16-bit displacement fields around the sign boundary
Disps == {0, 1, 2, 32767, 32768, 65534, 65535}

BranchCondWords ==
    {MkWord(t, s, b, d) : t \in 48..51, s \in {0, 1, 31}, b \in {0, 1, 31}, d \in Disps}

PlainBranchWords ==
    {MkWord(t, s, b, d) : t \in {52, 54, 58, 59, 60, 61, 62, 63},
                          s \in {0, 16, 31}, b \in {0, 31}, d \in {0, 65535}}

AbsBranchWords ==
    {MkWord(t, s, b, d) : t \in {53, 56, 57}, s \in {0, 31}, b \in {0, 31},
                          d \in {0, 1, 65535}}

JumprWords ==
    {MkWord(55, s, b, d) : s \in {0, 27, 31}, b \in {0, 15, 16, 31},
                           d \in {0, 1, 29, 65535}}

\* group 0 words, among them the firmware-id words 0x006ee000 and 0x005ff000
NopWords ==
    {MkWord(t, s, b, d) : t \in {0, 1}, s \in {0, 3, 31}, b \in {0, 14, 31},
                          d \in {0, 57344, 65535}}

\* <<rep, src1, src2, dst, bits 8..10 (peek, xmov)>>
Alu2Combos ==
    { << 0, 0, 0, 0, 0 >>, << 0, 1, 2, 3, 0 >>, << 1, 29, 30, 31, 7 >>,
      << 0, 0, 29, 29, 1 >>, << 0, 31, 0, 30, 2 >>, << 1, 0, 1, 1, 0 >>,
      << 0, 30, 31, 0, 4 >> }

Alu2SrcWords ==
    {MkWord(38 + c[1], c[2], c[3], sub + 256 * c[5] + 2048 * c[4]) :
        sub \in 0..31, c \in Alu2Combos}

\* <<rep, src1, dst>>
BitCombos == { << 0, 1, 2 >>, << 1, 29, 29 >>, << 0, 0, 0 >> }

BitOpsWords ==
    {MkWord(36 + c[1], c[2], c[3], sel * 4096 + h * 32 + l) :
        sel \in 0..15, h \in {0, 1, 31}, l \in {0, 1, 31}, c \in BitCombos}

MoviWords ==
    {MkWord(t, s, b, d) : t \in {28, 29, 34, 35}, s \in {0, 16, 24, 31},
                          b \in {0, 1, 29}, d \in {0, 1, 128, 65535}}

\* low halves of the memory and control-register forms: offset, sds (bits
\* 12..13), pre-increment (bit 14), bit 15
MemLows ==
    {0, 4, 16, 4095, 4096, 12288, 16384, 32768, 32772, 36864, 53247, 65535}

RegPairs == { << 0, 0 >>, << 1, 2 >>, << 29, 30 >> }

MemWords ==
    {MkWord(t, p[1], p[2], d) : t \in 40..47, p \in RegPairs, d \in MemLows}

AluImmWords ==
    {MkWord(t, p[1], p[2], d) : t \in 2..33, p \in RegPairs \cup {<< 31, 31 >>},
                                d \in {0, 1, 65535}}

Words ==
    BranchCondWords \cup PlainBranchWords \cup AbsBranchWords \cup JumprWords
    \cup NopWords \cup Alu2SrcWords \cup BitOpsWords \cup MoviWords
    \cup MemWords \cup AluImmWords

\* words also analysed in short and in long buffers
SampleWords ==
    {MkWord(0, 0, 0, 0), MkWord(50, 0, 0, 65535), MkWord(53, 0, 0, 1),
     MkWord(38, 0, 1, 6), MkWord(63, 31, 31, 65535)}

Addrs == {ToU64(4 * k) : k \in 0..MaxAddrWords}

\* firmware tags: the eight known ones, and unknown ones on both sides of
\* every range boundary of the fallback
KnownTags == {1840, 1856, 1298, 1312, 1774, 1756, 1757, 1535}

UnknownTags ==
    {0, 1, 1279, 1280, 1296, 1297, 1299, 1311, 1313, 1327, 1328, 1344, 1534,
     1536, 1755, 1773, 1775, 1791, 1792, 1839, 1841, 4095}

\* the word at file offset 4: the tag in bits 12..23, other bits set or clear
IdWord(tag, top, low) == U32(top * 256 + tag \div 16, (tag % 16) * 4096 + low)

IdWords ==
    {IdWord(t, 0, 0) : t \in KnownTags \cup UnknownTags}
    \cup {IdWord(t, top, low) : t \in {1774, 1535, 1296, 1344},
                                 top \in {1, 255}, low \in {0, 4095}}

\* instruction words whose decoding depends on the generation
GenWords ==
    {MkWord(38, 1, 2, 9 + 2048 * 3), MkWord(38, 0, 2, 12 + 2048 * 3),
     MkWord(57, 0, 0, 1), MkWord(46, 1, 2, 4), MkWord(46, 1, 2, 32772),
     MkWord(36, 1, 2, 4096 + 5), MkWord(44, 1, 2, 32772), MkWord(50, 0, 0, 65535)}

\* conditional relative branches and words that follow them in an image
CondWords ==
    {MkWord(48, 1, 1, 2), MkWord(49, 1, 0, 65535), MkWord(50, 1, 3, 1),
     MkWord(51, 0, 0, 0)}

SlotWords == {MkWord(0, 0, 0, 0), MkWord(38, 1, 2, 1 + 2048 * 3)}

Files ==
    {[len |-> n, code |-> << >>] : n \in {0, 4, 7}}
    \cup {[len |-> 16, code |-> << Bytes(IdWord(1774, 0, 0)), Bytes(b), Bytes(n) >>] :
             b \in CondWords, n \in SlotWords}
    \cup {[len |-> 8, code |-> << Bytes(i) >>] : i \in IdWords}
    \cup {[len |-> 12, code |-> << Bytes(i), Bytes(g) >>] : i \in IdWords, g \in GenWords}

\* the buffers handed to the entry points: exactly one word; a word followed
\* by four more bytes (GetMaxInstructionLength is 8); fewer than four bytes
Inputs ==
    {[data |-> Bytes(w), len |-> 4] : w \in Words}
    \cup {[data |-> Bytes(w) \o << t, t, t, t >>, len |-> 8] :
             w \in SampleWords, t \in 0..MaxTailByte}
    \cup {[data |-> SubSeq(Bytes(w), 1, n), len |-> n] :
             w \in SampleWords, n \in 0..3}

\* the threads of the host that call into the plugin at the same time
Workers == {1, 2}

\* words of an image scanned in parallel
ParWords ==
    {MkWord(0, 0, 0, 0), MkWord(38, 1, 2, 9 + 2048 * 3), MkWord(50, 1, 1, 65535),
     MkWord(37, 29, 29, 4096 + 5)}

Images == UNION {[1..n -> {Bytes(w) : w \in ParWords}] : n \in 1..MaxImageWords}

\* no parallel scan in progress
NoPar == [image |-> << >>]

\* --------------------------------------------------------------------------
\* State: one instruction under analysis and what each entry point returned
\* --------------------------------------------------------------------------

VARIABLES
    patch,      \* a patch buffer of the host: ConvertToNop's result, then decoded
    par,        \* workers decoding and lifting one image in parallel chunks
    file,       \* the firmware file of the view: [len, code]
    view,       \* the AfucBinaryView: what Init set up
    m_gpuver,   \* generation of the architecture object (0: none chosen yet)
    data,       \* the bytes handed to the entry points
    len,        \* their number
    addr,       \* the instruction's address (uint64_t)
    pc,         \* the next call of the analysis of this instruction
    dec,        \* afuc_decode: [ret, insn]
    info,       \* GetInstructionInfo: [ret, result]
    text,       \* GetInstructionText: [ret, len, result]
    llil,       \* GetInstructionLowLevelIL: [ret, len, il]
    lifted      \* afuc_get_llil on the decoded record: [ret, il]

vars ==
    << patch, par, file, view, m_gpuver, data, len, addr, pc, dec, info, text, llil,
       lifted >>

\* a record left over from an earlier decode
StaleInsn == DecodeWord(MkWord(38, 1, 2, 6), AFUC_A6XX)

\* no patch requested
NoPatch ==
    [state |-> "none", ret |-> FALSE, data |-> << >>,
     dec |-> [ret |-> FALSE, insn |-> StaleInsn]]

\* an architecture object used directly, without a firmware view
Init ==
    /\ patch = NoPatch
    /\ par = NoPar
    /\ file = [len |-> 0, code |-> << >>]
    /\ view = NoView(FALSE)
    /\ m_gpuver \in GpuVers
    /\ \E i \in Inputs : data = i.data /\ len = i.len
    /\ addr \in Addrs
    /\ pc = "afuc_decode"
    /\ dec = [ret |-> FALSE, insn |-> StaleInsn]
    /\ info = [ret |-> FALSE, result |-> [length |-> 0, branches |-> << >>]]
    /\ text = [ret |-> FALSE, len |-> len, result |-> << >>]
    /\ llil = [ret |-> FALSE, len |-> len, il |-> << >>]
    /\ lifted = [ret |-> FALSE, il |-> << >>]

\* the caller decodes the word into its record
AfucDecode ==
    /\ pc = "afuc_decode"
    /\ dec' = afuc_decode(data, len, addr, dec.insn, m_gpuver)
    /\ pc' = "GetInstructionInfo"
    /\ UNCHANGED << patch, par, file, view, m_gpuver, data, len, addr, info, text, llil, lifted >>

CallGetInstructionInfo ==
    /\ pc = "GetInstructionInfo"
    /\ info' = GetInstructionInfo(m_gpuver, data, addr, len, info.result)
    /\ pc' = "GetInstructionText"
    /\ UNCHANGED << patch, par, file, view, m_gpuver, data, len, addr, dec, text, llil, lifted >>

CallGetInstructionText ==
    /\ pc = "GetInstructionText"
    /\ text' = GetInstructionText(m_gpuver, data, addr, len, text.result)
    /\ pc' = "GetInstructionLowLevelIL"
    /\ UNCHANGED << patch, par, file, view, m_gpuver, data, len, addr, dec, info, llil, lifted >>

\* the label answers of the host for the two addresses a branch asks about,
\* and the outcome of an undefined shift in this build
Hosts(a, insn) ==
    {[labels |-> l, ub |-> u] :
        l \in SUBSET {RelTarget(a, insn), Add64(a, ToU64(8))},
        u \in {"mask", "zero"}}

CallGetInstructionLowLevelIL ==
    /\ pc = "GetInstructionLowLevelIL"
    /\ \E host \in Hosts(addr, dec.insn) :
           llil' = GetInstructionLowLevelIL(m_gpuver, host, data, addr, len, llil.il)
    /\ pc' = "afuc_get_llil"
    /\ UNCHANGED << patch, par, file, view, m_gpuver, data, len, addr, dec, info, text, lifted >>

\* the lifter applied to the record the decoder produced
AfucGetLlil ==
    /\ pc = "afuc_get_llil"
    /\ dec.ret
    /\ \E host \in Hosts(addr, dec.insn) :
           lifted' = afuc_get_llil(host, addr, lifted.il, dec.insn, m_gpuver)
    /\ pc' = "done"
    /\ UNCHANGED << patch, par, file, view, m_gpuver, data, len, addr, dec, info, text, llil >>

\* the analysis of the instruction has ended
AnalysisEnded == pc = "done" \/ (pc = "afuc_get_llil" /\ ~dec.ret)

\* the user patches the instruction out: the host calls ConvertToNop on a
\* copy of the instruction's bytes
CallConvertToNop ==
    /\ AnalysisEnded /\ patch.state = "none"
    /\ LET r == ConvertToNop(m_gpuver, data, addr, len)
       IN  patch' = [patch EXCEPT !.state = "converted", !.ret = r.ret, !.data = r.data]
    /\ UNCHANGED << par, file, view, m_gpuver, data, len, addr, pc, dec, info, text,
                    llil, lifted >>

\* the patched bytes are disassembled again
DecodePatched ==
    /\ patch.state = "converted"
    /\ patch' = [patch EXCEPT !.state = "decoded",
                              !.dec = afuc_decode(patch.data, len, addr, patch.dec.insn,
                                                  m_gpuver)]
    /\ UNCHANGED << par, file, view, m_gpuver, data, len, addr, pc, dec, info, text,
                    llil, lifted >>

Next ==
    \/ AfucDecode
    \/ CallGetInstructionInfo
    \/ CallGetInstructionText
    \/ CallGetInstructionLowLevelIL
    \/ AfucGetLlil
    \/ CallConvertToNop
    \/ DecodePatched

Spec == Init /\ [][Next]_vars

\* --------------------------------------------------------------------------
\* A firmware file is opened: the view detects the generation, selects the
\* architecture, and the analysis then walks the instruction words
\* --------------------------------------------------------------------------

InitView ==
    /\ patch = NoPatch
    /\ par = NoPar
    /\ file \in Files
    /\ view \in {NoView(p) : p \in BOOLEAN}
    /\ m_gpuver = 0
    /\ data = << >> /\ len = 0
    /\ addr = ToU64(0)
    /\ pc = "Init"
    /\ dec = [ret |-> FALSE, insn |-> StaleInsn]
    /\ info = [ret |-> FALSE, result |-> [length |-> 0, branches |-> << >>]]
    /\ text = [ret |-> FALSE, len |-> 0, result |-> << >>]
    /\ llil = [ret |-> FALSE, len |-> 0, il |-> << >>]
    /\ lifted = [ret |-> FALSE, il |-> << >>]

\* AfucBinaryView::Init; SetDefaultArchitecture makes the architecture of the
\* detected generation the one whose callbacks analyse the file
AfucBinaryViewInit ==
    /\ pc = "Init"
    /\ \E plat \in BOOLEAN : view' = AfucBinaryView_Init(view, file, plat)
    /\ m_gpuver' = IF view'.ret THEN GetByName(view'.arch) ELSE m_gpuver
    /\ pc' = IF view'.ret THEN "analyse" ELSE "failed"
    /\ UNCHANGED << patch, par, file, data, len, addr, dec, info, text, llil, lifted >>

\* the analysis turns to the instruction word k of the segment: the host
\* hands the callbacks up to GetMaxInstructionLength() bytes from its address
ReadInstruction ==
    /\ pc \in {"analyse", "done"}
    /\ view.ret
    /\ \E k \in 1..Len(file.code) :
          /\ data' = file.code[k]
                        \o (IF k < Len(file.code) THEN file.code[k + 1] ELSE << >>)
          /\ len' = Len(data')
          /\ addr' = ToU64(4 * (k - 1))
    /\ pc' = "afuc_decode"
    /\ dec' = dec
    /\ info' = [ret |-> FALSE, result |-> [length |-> 0, branches |-> << >>]]
    /\ text' = [ret |-> FALSE, len |-> len', result |-> << >>]
    /\ llil' = [ret |-> FALSE, len |-> len', il |-> << >>]
    /\ lifted' = [ret |-> FALSE, il |-> << >>]
    /\ patch' = NoPatch
    /\ UNCHANGED << par, file, view, m_gpuver >>

NextView ==
    \/ AfucBinaryViewInit
    \/ ReadInstruction
    \/ Next

SpecView == InitView /\ [][NextView]_vars

\* --------------------------------------------------------------------------
\* Parallel chunks: the host analyses one image on several threads; a thread
\* decodes and lifts the words of its chunk one call at a time
\* --------------------------------------------------------------------------

InsnSlot_Static(w) == 1

\* the record a call works on: `AfucInsn insn;` is a local of the callback,
\* so every thread has its own
InsnSlot(w) == w

\* the assignments afuc_decode makes after the memset, applied to the record
\* as it then is: a field the decoded operation does not set keeps what the
\* record holds
FillInsn(rec, w, gpuver) ==
    LET d == DecodeWord(w, gpuver)
        c == ClearedInsn(w)
    IN  [f \in DOMAIN rec |-> IF f = "op" \/ d[f] # c[f] THEN d[f] ELSE rec[f]]

\* a host without labels for the branch addresses
HostOf(ub) == [labels |-> {}, ub |-> ub]

InitPar ==
    /\ \E im \in Images, ow \in [1..MaxImageWords -> Workers], ub \in {"mask", "zero"} :
          par = [image |-> im, owner |-> [k \in 1..Len(im) |-> ow[k]], ub |-> ub,
                 pc   |-> [w \in Workers |-> "idle"],
                 cur  |-> [w \in Workers |-> 0],
                 slot |-> [w \in Workers |-> StaleInsn],
                 out  |-> [k \in 1..Len(im) |-> << >>]]
    /\ patch = NoPatch
    /\ file = [len |-> 0, code |-> << >>]
    /\ view = NoView(FALSE)
    /\ m_gpuver \in GpuVers
    /\ data = << >> /\ len = 0
    /\ addr = ToU64(0)
    /\ pc = "parallel"
    /\ dec = [ret |-> FALSE, insn |-> StaleInsn]
    /\ info = [ret |-> FALSE, result |-> [length |-> 0, branches |-> << >>]]
    /\ text = [ret |-> FALSE, len |-> 0, result |-> << >>]
    /\ llil = [ret |-> FALSE, len |-> 0, il |-> << >>]
    /\ lifted = [ret |-> FALSE, il |-> << >>]

ParUnchanged ==
    UNCHANGED << patch, file, view, m_gpuver, data, len, addr, pc, dec, info, text, llil, lifted >>

\* the thread turns to the next word of its chunk
TakeWord(w) ==
    /\ pc = "parallel" /\ par.pc[w] = "idle"
    /\ \E k \in 1..Len(par.image) :
          /\ par.owner[k] = w /\ par.out[k] = << >>
          /\ \A j \in 1..(k - 1) : par.owner[j] = w => par.out[j] # << >>
          /\ par' = [par EXCEPT !.cur[w] = k, !.pc[w] = "memset"]
    /\ ParUnchanged

\* afuc_decode, first half: memset, op = AFUC_INVALID, raw = w
DecodeClear(w) ==
    /\ pc = "parallel" /\ par.pc[w] = "memset"
    /\ par' = [par EXCEPT !.slot[InsnSlot(w)] = ClearedInsn(LoadWord(par.image[par.cur[w]])),
                          !.pc[w] = "fill"]
    /\ ParUnchanged

\* afuc_decode, second half: the fields of the decoded operation
DecodeFill(w) ==
    /\ pc = "parallel" /\ par.pc[w] = "fill"
    /\ par' = [par EXCEPT !.slot[InsnSlot(w)] =
                              FillInsn(par.slot[InsnSlot(w)],
                                       LoadWord(par.image[par.cur[w]]), m_gpuver),
                          !.pc[w] = "lift"]
    /\ ParUnchanged

\* afuc_get_llil on the record of the call, into the IL of this word
LiftWord(w) ==
    /\ pc = "parallel" /\ par.pc[w] = "lift"
    /\ LET k    == par.cur[w]
           insn == par.slot[InsnSlot(w)]
           r    == afuc_get_llil(HostOf(par.ub), ToU64(4 * (k - 1)), << >>, insn, m_gpuver)
       IN  par' = [par EXCEPT !.out[k] = << [insn |-> insn, il |-> r.il] >>,
                              !.pc[w] = "idle", !.cur[w] = 0]
    /\ ParUnchanged

NextPar ==
    \E w \in Workers : TakeWord(w) \/ DecodeClear(w) \/ DecodeFill(w) \/ LiftWord(w)

SpecPar == InitPar /\ [][NextPar]_vars

\* --------------------------------------------------------------------------
\* Properties
\* --------------------------------------------------------------------------

\* the word under analysis and its fields (defined when len >= 4)
W == LoadWord(data)
Top6 == W.hi \div 1024
Top5 == W.hi \div 2048
F21 == (W.hi \div 32) % 32
F16 == W.hi % 32
AddrInt == addr[1] + 65536 * addr[2]

Decoded == pc # "afuc_decode" /\ dec.ret
\* afuc_decode has just returned; dec and data stay as they are until "done"
JustDecoded == pc = "GetInstructionInfo" /\ dec.ret
InfoDone == pc \in {"GetInstructionText", "GetInstructionLowLevelIL", "afuc_get_llil", "done"}
TextDone == pc \in {"GetInstructionLowLevelIL", "afuc_get_llil", "done"}
LlilDone == pc \in {"afuc_get_llil", "done"}
LiftDone == pc = "done"

RelBranchOps == {"BRNE_IMM", "BREQ_IMM", "BRNE_BIT", "BREQ_BIT", "JUMP"}

\* C1: afuc_decode is total.  A call is always possible, it returns true
\* exactly when at least 4 bytes are supplied, and then the record carries
\* one tag of the closed operation set and the word it was decoded from.
Thm_C1_DecodeTotal ==
    /\ pc = "afuc_decode" => ENABLED AfucDecode
    /\ pc # "afuc_decode" =>
          /\ dec.ret <=> len >= 4
          /\ dec.ret => dec.insn.op \in AfucOps /\ dec.insn.raw = W
          /\ ~dec.ret => dec.insn = StaleInsn

Wit_C1_InvalidRecord ==
    Decoded /\ len >= 4 /\ m_gpuver = AFUC_A7XX /\ dec.insn.op = "INVALID" /\ Top6 = 63

\* C2: in the two-source group the operation is the entry of the table of
\* the supplied generation (OR may be shown as MOV); sub-opcode 0x09 is BIC
\* under generation 7 and SHL under generations 5 and 6.
Thm_C2_GenerationTable ==
    Decoded /\ Top5 = 19 =>
        LET sub == W.lo % 32
            e == IF m_gpuver = AFUC_A7XX THEN s_alu2src_a7[sub + 1]
                 ELSE s_alu2src_a6[sub + 1]
        IN  /\ dec.insn.op = e.op \/ (e.op = "OR" /\ dec.insn.op = "MOV")
            /\ sub = 9 => dec.insn.op = IF m_gpuver = AFUC_A7XX THEN "BIC" ELSE "SHL"

Wit_C2_BicUnderA7 ==
    Decoded /\ Top5 = 19 /\ W.lo % 32 = 9 /\ m_gpuver = AFUC_A7XX /\ dec.insn.op = "BIC"

\* C3: a two-source-group word whose sub-opcode selects OR decodes to MOV
\* with the one-source flag when the source-1 field is 0 and to OR otherwise;
\* nothing else decodes to MOV.
Thm_C3_OrZeroIsMov ==
    Decoded =>
        LET sub == W.lo % 32
            isOr == Top5 = 19 /\ s_alu2src_a6[sub + 1].op = "OR"
                             /\ s_alu2src_a7[sub + 1].op = "OR"
        IN  /\ isOr /\ F21 = 0 => dec.insn.op = "MOV" /\ dec.insn.is_1src
            /\ isOr /\ F21 # 0 => dec.insn.op = "OR" /\ ~dec.insn.is_1src
            /\ dec.insn.op = "MOV" => isOr /\ F21 = 0

Wit_C3_MovFromOr ==
    Decoded /\ Top5 = 19 /\ W.lo % 32 = 6 /\ F21 = 0 /\ F16 = 29
    /\ dec.insn.op = "MOV" /\ dec.insn.is_1src

\* C4: opcode 0x32 decodes to JUMP exactly when the source field and the
\* bit-index field are both 0, and to a bit-test branch otherwise; opcode
\* 0x33 always decodes to a bit-test branch.
Thm_C4_JumpAlias ==
    Decoded =>
        /\ Top6 = 50 /\ F21 = 0 /\ F16 = 0 => dec.insn.op = "JUMP"
        /\ Top6 = 50 /\ (F21 # 0 \/ F16 # 0) => dec.insn.op = "BRNE_BIT"
        /\ Top6 = 51 => dec.insn.op = "BREQ_BIT"
        /\ dec.insn.op = "JUMP" => Top6 = 50 /\ F21 = 0 /\ F16 = 0

Wit_C4_ZeroSourceNonzeroBit ==
    Decoded /\ Top6 = 50 /\ F21 = 0 /\ F16 = 1 /\ dec.insn.op = "BRNE_BIT"

\* C5: the displacement of a relative branch is the two's-complement value of
\* the low 16 bits of the word.
Thm_C5_SignExtension ==
    Decoded /\ dec.insn.op \in RelBranchOps =>
        /\ W.lo < 32768 => dec.insn.branch_offset = W.lo
        /\ W.lo >= 32768 => dec.insn.branch_offset = W.lo - 65536
        /\ dec.insn.branch_offset \in -32768..32767

Wit_C5_MostNegative ==
    Decoded /\ dec.insn.op \in RelBranchOps /\ W.lo = 32768
    /\ dec.insn.branch_offset = -32768

\* the target a lifted relative branch transfers to when taken
IlTarget(il) ==
    LET i == il[1]
    IN  CASE i[1] = "If" /\ i[3][1] = "Label" -> i[3][2]
          [] i[1] = "If" /\ i[3][1] = "Local" -> il[i[3][2]][2][3]
          [] i[1] = "Goto" -> i[2][2]
          [] i[1] = "Jump" -> i[2][3]

\* a 64-bit address below 2^31 as a number
U64Int(a) == a[1] + 65536 * a[2]

\* C6: for a relative branch at address A with displacement D the taken
\* target of GetInstructionInfo, of the disassembly text and of the lifter is
\* the one value (A + 4) + 4 * D, taken in the 64-bit address arithmetic.
Thm_C6_RelativeTarget ==
    Decoded /\ dec.insn.op \in RelBranchOps =>
        LET e == AddrInt + 4 + 4 * dec.insn.branch_offset
            t == I64ToU64(e)
        IN  /\ e >= 0 => t[3] = 0 /\ t[4] = 0 /\ U64Int(t) = e
            /\ InfoDone => info.result.branches[1][2] = t
            /\ TextDone => text.result[Len(text.result)][3] = t
            /\ LlilDone => IlTarget(llil.il) = t
            /\ LiftDone => IlTarget(lifted.il) = t

Wit_C6_BackwardBranch ==
    /\ LiftDone /\ dec.insn.op = "BREQ_IMM" /\ dec.insn.branch_offset = -2
    /\ AddrInt = 4
    /\ info.result.branches[1] = << "TrueBranch", ToU64(0), TRUE >>
    /\ text.result[Len(text.result)][3] = ToU64(0)
    /\ IlTarget(lifted.il) = ToU64(0)

\* C7: for CALL, BL and JUMPA the decoded target is the low 26 bits T of the
\* word and the byte target of GetInstructionInfo and of the lifter is T * 4:
\* 4-aligned, below 2^28, and no function of the instruction's address.
Thm_C7_AbsoluteTarget ==
    Decoded /\ dec.insn.op \in {"CALL", "BL", "JUMPA"} =>
        LET T == (W.hi % 1024) * 65536 + W.lo
            t == << (4 * T) % 65536, (4 * T) \div 65536, 0, 0 >>
            kind == IF dec.insn.op = "JUMPA" THEN "UnconditionalBranch"
                    ELSE "CallDestination"
            ilop == IF dec.insn.op = "JUMPA" THEN "Jump" ELSE "Call"
        IN  /\ dec.insn.branch_target = T
            /\ U64Int(t) = 4 * T /\ U64Int(t) % 4 = 0 /\ U64Int(t) < 268435456
            /\ InfoDone => info.result.branches = << << kind, t, TRUE >> >>
            /\ LlilDone => llil.il = << << ilop, << "ConstPointer", 4, t >> >> >>
            /\ LiftDone => lifted.il = << << ilop, << "ConstPointer", 4, t >> >> >>

Wit_C7_LargestTarget ==
    /\ LiftDone /\ dec.insn.op = "BL" /\ dec.insn.branch_target = 67108863
    /\ AddrInt = 4
    /\ info.result.branches[1][2] = << 65532, 4095, 0, 0 >>
    /\ lifted.il[1][2][3] = << 65532, 4095, 0, 0 >>

\* C8: in every decoded record src1 and src2 are the source mapping of their
\* encodings (0x1d memory-read result, 0x1e register-read result, 0x1f FIFO
\* data) and dst is the destination mapping of its encoding (0x1d address
\* register, 0x1e user-address register, everything else as for a source).
Thm_C8_TwoRegisterMappings ==
    Decoded =>
        LET src(enc) == CASE enc = 29 -> REG_MEMDATA
                          [] enc = 30 -> REG_REGDATA
                          [] enc = 31 -> REG_DATA
                          [] OTHER -> enc
            dst(enc) == CASE enc = 29 -> REG_ADDR
                          [] enc = 30 -> REG_USRADDR
                          [] enc = 31 -> REG_DATA
                          [] OTHER -> src(enc)
            i == dec.insn
        IN  /\ i.src1_enc \in 0..31 /\ i.src2_enc \in 0..31 /\ i.dst_enc \in 0..31
            /\ i.src1 = src(i.src1_enc)
            /\ i.src2 = src(i.src2_enc)
            /\ i.dst = dst(i.dst_enc)
            /\ REG_ADDR # REG_MEMDATA /\ REG_USRADDR # REG_REGDATA

Wit_C8_SameEncodingBothRoles ==
    /\ Decoded /\ dec.insn.op = "ADD"
    /\ dec.insn.dst_enc = 29 /\ dec.insn.src2_enc = 29
    /\ dec.insn.dst = REG_ADDR /\ dec.insn.src2 = REG_MEMDATA

\* C9: a record tagged invalid, RET, IRET, SRET, WAITIN or SETSECURE differs
\* from the cleared record only in its tag and its raw word.
Claim_C9_IrrelevantFieldsZero ==
    Decoded /\ dec.insn.op \in {"INVALID", "RET", "IRET", "SRET", "WAITIN", "SETSECURE"}
        => dec.insn = [ClearedInsn(W) EXCEPT !.op = dec.insn.op]

\* C10: lifting a decoded record always succeeds and appends at least one IL
\* instruction; the invalid tag lifts to the unimplemented marker and no
\* other tag does; the architecture entry point never leaves the IL empty
\* and answers an invalid record with the undefined marker.
Thm_C10_LiftTotal ==
    /\ pc = "afuc_get_llil" /\ dec.ret => ENABLED AfucGetLlil
    /\ LiftDone =>
          /\ lifted.ret /\ Len(lifted.il) >= 1
          /\ dec.insn.op = "INVALID" <=> lifted.il = << << "Unimplemented" >> >>
          /\ \A k \in 1..Len(lifted.il) : lifted.il[k] # << >>
    /\ LlilDone =>
          /\ Len(llil.il) >= 1
          /\ ~llil.ret <=> llil.il = << << "Undefined" >> >>
          /\ dec.ret => (llil.ret <=> dec.insn.op # "INVALID")

Wit_C10_InvalidLifted ==
    /\ LiftDone /\ dec.insn.op = "INVALID" /\ dec.insn.rep
    /\ lifted.il = << << "Unimplemented" >> >>
    /\ llil.il = << << "Undefined" >> >>

\* the firmware tag of a file of at least 8 bytes, read off its bytes: bits
\* 12..23 of the little-endian word at offset 4
TagOf(f) == f.code[1][2] \div 16 + 16 * f.code[1][3]

ViewReady == view.ret /\ pc # "Init"

\* C11: the view reads the firmware tag from bits 12..23 of the word at file
\* offset 4; tags 0x730, 0x740, 0x512, 0x520 select the generation-7
\* architecture, 0x6ee, 0x6dc, 0x6dd the generation-6 one and 0x5ff the
\* generation-5 one; every word of the file is then decoded with the tables
\* of that generation (sub-opcode 0x09 of group 0x13 is SHL after tag 0x6ee
\* and BIC after tag 0x730).
Thm_C11_TagSelectsGeneration ==
    /\ pc # "Init" => (view.ret <=> file.len >= 8)
    /\ ViewReady =>
          /\ view.fw_id = TagOf(file)
          /\ view.arch = ArchName(m_gpuver)
          /\ TagOf(file) \in {1840, 1856, 1298, 1312} => m_gpuver = 7
          /\ TagOf(file) \in {1774, 1756, 1757} => m_gpuver = 6
          /\ TagOf(file) = 1535 => m_gpuver = 5
    /\ ViewReady /\ Decoded /\ TagOf(file) \in KnownTags =>
          /\ dec.ret
          /\ dec.insn = DecodeWord(W, IF TagOf(file) = 1535 THEN 5
                                      ELSE IF TagOf(file) \in {1774, 1756, 1757} THEN 6
                                      ELSE 7)
          /\ Top5 = 19 /\ W.lo % 32 = 9 =>
                dec.insn.op = (IF m_gpuver = 7 THEN "BIC" ELSE "SHL")

Wit_C11_Tag6eeDecodesShl ==
    /\ ViewReady /\ Decoded
    /\ TagOf(file) = 1774 /\ file.code[1][4] = 255
    /\ m_gpuver = 6 /\ view.arch = "afuc-a6xx"
    /\ AddrInt = 4 /\ Top5 = 19 /\ W.lo % 32 = 9 /\ dec.insn.op = "SHL"

\* C12 as stated: two unknown tags with the same high nibble are given the
\* same generation.
Claim_C12_HighNibbleAlone ==
    ViewReady /\ TagOf(file) \notin KnownTags =>
        \A f \in Files :
            (f.len >= 8 /\ TagOf(f) \notin KnownTags
             /\ TagOf(f) \div 256 = TagOf(file) \div 256)
            => afuc_detect_gpuver(afuc_get_fwid(f)) = m_gpuver

\* C12 amended: for an unknown tag the generation is decided by the range
\* the tag lies in: 0x700 and above is generation 7, 0x600..0x6ff generation
\* 6, 0x500..0x52f generation 7, 0x530..0x5ff generation 5, below 0x500
\* generation 6. It is a function of the high nibble alone except for high
\* nibble 5, where bits 4..7 also decide.
Thm_C12_UnknownTagRanges ==
    ViewReady /\ TagOf(file) \notin KnownTags =>
        LET t == TagOf(file)
        IN  /\ t \div 256 >= 7 => m_gpuver = 7
            /\ t \div 256 = 6 => m_gpuver = 6
            /\ t \div 256 = 5 /\ (t \div 16) % 16 < 3 => m_gpuver = 7
            /\ t \div 256 = 5 /\ (t \div 16) % 16 >= 3 => m_gpuver = 5
            /\ t \div 256 < 5 => m_gpuver = 6

Wit_C12_SameNibbleTwoGenerations ==
    /\ ViewReady /\ TagOf(file) = 1296 /\ m_gpuver = 7
    /\ \E f \in Files : f.len >= 8 /\ TagOf(f) = 1344
                        /\ afuc_detect_gpuver(afuc_get_fwid(f)) = 5

\* other arguments a second call may be given with the same first four bytes
OtherAddrs == Addrs \cup {<< 65532, 65535, 65535, 65535 >>}
OtherTails == {<< >>, << 255 >>, << 0, 0, 0, 0 >>, << 255, 255, 255, 255 >>}
OtherInsns ==
    {ClearedInsn(U32(0, 0)), StaleInsn, DecodeWord(MkWord(45, 29, 30, 65535), AFUC_A7XX),
     DecodeWord(MkWord(51, 31, 31, 65535), AFUC_A5XX)}

\* C13: the record afuc_decode returns depends on the first four bytes and
\* the generation only: a second call with the same four bytes and
\* generation, whatever its address, the bytes after the fourth, the
\* reported length (4 or more) and the previous contents of the output
\* record, returns the same record field for field.
Thm_C13_DecodePure ==
    JustDecoded /\ len >= 4 =>
        \A a \in OtherAddrs, t \in OtherTails, p \in OtherInsns :
            afuc_decode(SubSeq(data, 1, 4) \o t, 4 + Len(t), a, p, m_gpuver) = dec

Wit_C13_StaleRecordOverwritten ==
    /\ Decoded /\ len = 8 /\ AddrInt = 4
    /\ dec.insn.op = "NOP" /\ dec.insn.src1 = 0 /\ dec.insn.src2 = 0
    /\ StaleInsn.src1 = 1 /\ StaleInsn.src2 = 2

\* the record and the IL that one sequential scan gives word k of the image
SequentialScan(k) ==
    LET d == afuc_decode(par.image[k], 4, ToU64(4 * (k - 1)), StaleInsn, m_gpuver)
    IN  [insn |-> d.insn,
         il   |-> afuc_get_llil(HostOf(par.ub), ToU64(4 * (k - 1)), << >>, d.insn, m_gpuver).il]

\* C14: when threads decode and lift the words of one image concurrently, in
\* any interleaving of their calls and any division of the words among them,
\* every word gets the record and the IL of a sequential scan, and a step of
\* one thread leaves the record every other thread works on as it was.
Thm_C14_ParallelScan ==
    /\ [](pc = "parallel" =>
            \A k \in 1..Len(par.image) :
                par.out[k] # << >> => par.out[k][1] = SequentialScan(k))
    /\ [][pc = "parallel" =>
            \A w \in Workers :
                par'.pc[w] = par.pc[w] => par'.slot[InsnSlot(w)] = par.slot[InsnSlot(w)]]_vars

Wit_C14_BothThreadsInsideDecode ==
    /\ pc = "parallel"
    /\ par.pc[1] = "fill" /\ par.pc[2] = "lift"
    /\ par.cur[1] = 2 /\ par.cur[2] = 1
    /\ par.image[1] # par.image[2]
    /\ par.slot[1] # par.slot[2]

\* the registers an IL expression or instruction reads through Register
\* nodes, and the registers it writes: the destination of a SetRegister and
\* the outputs of an Intrinsic
RECURSIVE RegsRead(_)
RegsRead(e) ==
    CASE e[1] = "Register" -> {e[3]}
      [] e[1] = "SetRegister" -> RegsRead(e[4])
      [] e[1] = "Intrinsic" -> UNION {RegsRead(e[4][i]) : i \in 1..Len(e[4])}
      [] e[1] \in {"Add", "Sub", "And", "Or", "Xor", "ShiftLeft", "LogicalShiftRight",
                   "ArithShiftRight", "RotateLeft", "Mult", "CompareEqual",
                   "CompareNotEqual", "Store"} -> RegsRead(e[3]) \cup RegsRead(e[4])
      [] e[1] \in {"AddCarry", "SubBorrow"} ->
            RegsRead(e[3]) \cup RegsRead(e[4]) \cup RegsRead(e[5])
      [] e[1] \in {"Not", "Load"} -> RegsRead(e[3])
      [] e[1] \in {"Jump", "Call", "Return", "If"} -> RegsRead(e[2])
      [] OTHER -> {}

RECURSIVE RegsWritten(_)
RegsWritten(e) ==
    CASE e[1] = "SetRegister" -> {e[3]} \cup RegsWritten(e[4])
      [] e[1] = "Intrinsic" ->
            {e[2][i] : i \in 1..Len(e[2])}
            \cup UNION {RegsWritten(e[4][i]) : i \in 1..Len(e[4])}
      [] e[1] \in {"Add", "Sub", "And", "Or", "Xor", "ShiftLeft", "LogicalShiftRight",
                   "ArithShiftRight", "RotateLeft", "Mult", "CompareEqual",
                   "CompareNotEqual", "Store"} -> RegsWritten(e[3]) \cup RegsWritten(e[4])
      [] e[1] \in {"AddCarry", "SubBorrow"} ->
            RegsWritten(e[3]) \cup RegsWritten(e[4]) \cup RegsWritten(e[5])
      [] e[1] \in {"Not", "Load"} -> RegsWritten(e[3])
      [] e[1] \in {"Jump", "Call", "Return", "If"} -> RegsWritten(e[2])
      [] OTHER -> {}

\* the operations that have a destination register
DstOps ==
    {"ADD", "ADDHI", "SUB", "SUBHI", "AND", "OR", "XOR", "NOT", "SHL", "USHR",
     "ISHR", "ROT", "MUL8", "MIN", "MAX", "CMP", "BIC", "MSB", "MOV", "MOVI",
     "SETBIT", "CLRBIT", "SETBIT_R", "UBFX", "BFI", "CREAD", "SREAD", "LOAD"}

\* C15: in the IL lifted for any decoded instruction register 0 is never
\* read (a source encoding 0 is the constant 0), no operation writes
\* register 0, and an instruction with destination encoding 0 lifts to a
\* single no-op.
Claim_C15_RegisterZero ==
    LiftDone =>
        /\ \A k \in 1..Len(lifted.il) :
              /\ REG_R00 \notin RegsRead(lifted.il[k])
              /\ REG_R00 \notin RegsWritten(lifted.il[k])
        /\ dec.insn.op \in DstOps /\ dec.insn.dst_enc = 0 =>
              lifted.il = << << "Nop" >> >>

\* the BL word and the CALL word with the 26-bit target of word w
CallTwin(w) == U32(53 * 1024 + (w.hi % 1024), w.lo)
BlTwin(w) == U32(56 * 1024 + (w.hi % 1024), w.lo)

CondBranchOps == {"BRNE_IMM", "BREQ_IMM", "BRNE_BIT", "BREQ_BIT"}

\* the address the IL of a conditional branch at a, lifted with length n,
\* passes control to when the branch is taken and when it is not: a resolved
\* If goes to its two labels; with local labels the taken side is the Jump
\* and the other side runs off the end of the instruction's IL, to a + n
IlSuccessor(a, il, n, taken) ==
    LET if == il[Len(il) - (IF il[Len(il)][1] = "Jump" THEN 1 ELSE 0)]
    IN  IF if[3][1] = "Label"
        THEN (IF taken THEN if[3][2] ELSE if[4][2])
        ELSE (IF taken THEN il[Len(il)][2][3] ELSE Add64(a, ToU64(n)))

\* the IL of the word that follows the branch in the buffer
SlotIl ==
    LiftInsn([labels |-> {}, ub |-> "mask"], Add64(addr, ToU64(4)),
             DecodeWord(LoadWord(SubSeq(data, 5, 8)), m_gpuver))

\* C17: for a conditional relative branch at A both branches that
\* GetInstructionInfo reports carry the delay slot, and in the IL of the
\* lifter the word at A + 4 runs on both outcomes before the target or the
\* not-taken successor: its IL precedes the transfer, or control passes to
\* A + 4 first.
Claim_C17_DelaySlotBothOutcomes ==
    LlilDone /\ dec.ret /\ dec.insn.op \in CondBranchOps /\ len = 8 =>
        /\ Len(info.result.branches) = 2
        /\ \A i \in 1..2 : info.result.branches[i][3]
        /\ \A taken \in BOOLEAN :
              \/ /\ llil.len = 8
                 /\ SubSeq(llil.il, 1, Len(SlotIl)) = SlotIl
              \/ IlSuccessor(addr, llil.il, llil.len, taken) = Add64(addr, ToU64(4))

\* the kind of transfer a branch list of GetInstructionInfo reports
InfoKind(branches) ==
    IF branches = << >> THEN "None"
    ELSE IF Len(branches) = 2 /\ branches[1][1] = "TrueBranch"
            /\ branches[2][1] = "FalseBranch" THEN "Conditional"
    ELSE branches[1][1]

\* the kind of transfer the IL of one instruction makes
IlKind(il) ==
    LET i == il[1]
    IN  CASE i[1] = "If" -> "Conditional"
          [] i[1] = "Return" -> "FunctionReturn"
          [] i[1] = "Call" -> "CallDestination"
          [] i[1] = "Goto" -> "UnconditionalBranch"
          [] i[1] = "Jump" /\ i[2][1] \in {"ConstPointer", "Const"} -> "UnconditionalBranch"
          [] i[1] = "Jump" -> "UnresolvedBranch"
          [] OTHER -> "None"

\* the kind of transfer the claim gives each tag
TagKind(op) ==
    CASE op \in {"RET", "IRET", "SRET", "WAITIN"} -> "FunctionReturn"
      [] op \in {"CALL", "BL"} -> "CallDestination"
      [] op \in {"JUMP", "JUMPA"} -> "UnconditionalBranch"
      [] op = "JUMPR" -> "UnresolvedBranch"
      [] op \in CondBranchOps -> "Conditional"
      [] OTHER -> "None"

\* C18 as stated: for every tag GetInstructionInfo and the lifter make the
\* same kind of transfer, the one the claim lists for the tag; JUMPR is an
\* indirect transfer through a register in both.
Claim_C18_BranchKindsAgree ==
    LiftDone =>
        /\ InfoKind(info.result.branches) = TagKind(dec.insn.op)
        /\ IlKind(lifted.il) = TagKind(dec.insn.op)

\* C18 amended: the same, except that a JUMPR whose source encoding is 0 is
\* lifted as a jump to the constant 0 (register 0 reads as zero) while
\* GetInstructionInfo still reports an unresolved branch.
Thm_C18_BranchKindsAgree ==
    LiftDone =>
        /\ InfoKind(info.result.branches) = TagKind(dec.insn.op)
        /\ dec.insn.op = "JUMPR" /\ dec.insn.src1_enc = 0 =>
              lifted.il = << << "Jump", Const(U32(0, 0)) >> >>
        /\ ~(dec.insn.op = "JUMPR" /\ dec.insn.src1_enc = 0) =>
              IlKind(lifted.il) = TagKind(dec.insn.op)
        /\ dec.insn.op = "JUMPR" /\ dec.insn.src1_enc # 0 =>
              lifted.il = << << "Jump", << "Register", 4, dec.insn.src1_enc >> >> >>
        /\ TagKind(dec.insn.op) = "None" =>
              \A k \in 1..Len(lifted.il) :
                  lifted.il[k][1] \notin {"If", "Jump", "Goto", "Call", "Return"}
        /\ LlilDone /\ llil.ret => IlKind(llil.il) = IlKind(lifted.il)

Wit_C18_JumprThroughRegisterZero ==
    /\ LiftDone /\ dec.insn.op = "JUMPR" /\ dec.insn.src1_enc = 0
    /\ info.result.branches = << << "UnresolvedBranch", ToU64(0), TRUE >> >>
    /\ lifted.il = << << "Jump", Const(U32(0, 0)) >> >>

\* C19: a word with opcode bits 26..31 = 0x39 decodes to JUMPA under
\* generation 7 and to no absolute jump under generations 5 and 6.
Claim_C19_JumpaGeneration7Only ==
    Decoded /\ dec.ret /\ Top6 = 57 =>
        (dec.insn.op = "JUMPA" <=> m_gpuver = AFUC_A7XX)

\* C20: a group-0x17 word is a register read under generations 6 and 7, a
\* CREAD with bit 15 clear and an SREAD with bit 15 set, base = bits 0..11;
\* under generation 5 it is decoded as neither.
Claim_C20_Group17ReadForms ==
    Decoded /\ dec.ret /\ Top5 = 23 =>
        /\ m_gpuver >= AFUC_A6XX =>
              /\ dec.insn.op = (IF W.lo >= 32768 THEN "SREAD" ELSE "CREAD")
              /\ dec.insn.base = W.lo % 4096
        /\ m_gpuver = AFUC_A5XX => dec.insn.op \notin {"CREAD", "SREAD"}

\* C21: a group-0x15 word is SWRITE exactly when the generation is 6 or 7,
\* bit 15 is set and the select field (bits 12..13) is 0; otherwise it is
\* CWRITE; in both cases base = bits 0..11 and sds = bits 12..13.
Thm_C21_SwriteCondition ==
    Decoded /\ Top5 = 21 =>
        LET bit15 == W.lo \div 32768
            sel == (W.lo \div 4096) % 4
        IN  /\ dec.insn.op \in {"SWRITE", "CWRITE"}
            /\ dec.insn.op = "SWRITE" <=>
                   (m_gpuver \in {AFUC_A6XX, AFUC_A7XX} /\ bit15 = 1 /\ sel = 0)
            /\ dec.insn.base = W.lo % 4096
            /\ dec.insn.sds = sel

Wit_C21_Bit15WithSelectIsCwrite ==
    /\ Decoded /\ Top5 = 21 /\ m_gpuver = AFUC_A6XX
    /\ W.lo = 36864 /\ dec.insn.op = "CWRITE" /\ dec.insn.sds = 1

\* C22: a group-0x16 word is CREAD under generation 5 whatever bit 15 is;
\* under generations 6 and 7 it is LOAD exactly when bit 15 is clear, with
\* offset = bits 0..11, destination = bits 16..20 and base register = bits
\* 21..25, and it is neither LOAD nor CREAD when bit 15 is set.
Thm_C22_Group16LoadOrCread ==
    Decoded /\ Top5 = 22 =>
        LET bit15 == W.lo \div 32768
        IN  /\ m_gpuver = AFUC_A5XX => dec.insn.op = "CREAD"
            /\ m_gpuver \in {AFUC_A6XX, AFUC_A7XX} =>
                  /\ dec.insn.op = "LOAD" <=> bit15 = 0
                  /\ bit15 = 0 =>
                        /\ dec.insn.immed = W.lo % 4096
                        /\ dec.insn.dst_enc = F16
                        /\ dec.insn.src1_enc = F21
                        /\ dec.insn.dst = afuc_dst_reg(F16)
                        /\ dec.insn.src1 = afuc_src_reg(F21)
                  /\ bit15 = 1 => dec.insn.op \notin {"LOAD", "CREAD"}

Wit_C22_Bit15SetUnderA6 ==
    /\ Decoded /\ Top5 = 22 /\ m_gpuver = AFUC_A6XX
    /\ W.lo = 32772 /\ F21 = 1 /\ F16 = 2 /\ dec.insn.op = "INVALID"

\* C23: a non-branch word decodes to MOVI if and only if its group is 0x11
\* under generation 5 or 6, or 0x0e under generation 7; then immed = bits
\* 0..15, destination = bits 16..20 and shift = bits 21..25.
Thm_C23_MoviGroups ==
    Decoded /\ Top6 \div 16 # 3 =>
        /\ dec.insn.op = "MOVI" <=>
               \/ Top5 = 17 /\ m_gpuver \in {AFUC_A5XX, AFUC_A6XX}
               \/ Top5 = 14 /\ m_gpuver = AFUC_A7XX
        /\ dec.insn.op = "MOVI" =>
               /\ dec.insn.immed = W.lo
               /\ dec.insn.dst_enc = F16
               /\ dec.insn.dst = afuc_dst_reg(F16)
               /\ dec.insn.shift = F21
        /\ Top5 = 17 /\ m_gpuver = AFUC_A7XX => dec.insn.op # "MOVI"
        /\ Top5 = 14 /\ m_gpuver \in {AFUC_A5XX, AFUC_A6XX} => dec.insn.op # "MOVI"

Wit_C23_Group11UnderA7NotMovi ==
    /\ Decoded /\ Top5 = 17 /\ m_gpuver = AFUC_A7XX /\ dec.insn.op = "INVALID"
    /\ W.lo = 65535 /\ F21 = 24

\* C24: a group-0x12 word under generation 7 whose selector (bits 12..15) is
\* none of the extended selectors 2..8 decodes to the record the same word
\* yields under generation 6: SETBIT if bit 0 is 1 and CLRBIT otherwise, bit
\* index = bits 1..5, source = bits 21..25, destination = bits 16..20.
Thm_C24_SelectorFallback ==
    Decoded /\ Top5 = 18 /\ m_gpuver = AFUC_A7XX /\ (W.lo \div 4096) \notin 2..8 =>
        /\ dec.insn = DecodeWord(W, AFUC_A6XX)
        /\ dec.insn.op = (IF W.lo % 2 = 1 THEN "SETBIT" ELSE "CLRBIT")
        /\ dec.insn.bit = (W.lo \div 2) % 32
        /\ dec.insn.src1_enc = F21 /\ dec.insn.src1 = afuc_src_reg(F21)
        /\ dec.insn.dst_enc = F16 /\ dec.insn.dst = afuc_dst_reg(F16)

Wit_C24_Selector9IsSetbit ==
    /\ Decoded /\ Top5 = 18 /\ m_gpuver = AFUC_A7XX
    /\ W.lo = 9 * 4096 + 31 * 32 + 31 /\ F21 = 29
    /\ dec.insn.op = "SETBIT" /\ dec.insn.bit = 31

\* C25: a non-branch word whose group lies in 1..0x10 and is not the
\* move-immediate group of the generation decodes to the entry of that
\* generation's immediate-ALU table, with immed = bits 0..15, the immediate
\* flag set and the one-source flag set exactly when the entry has no
\* source-1 operand; an invalid entry (generation 7, groups 0x0f and 0x10)
\* gives the invalid tag with raw equal to the word.
Thm_C25_ImmediateAluTable ==
    Decoded /\ Top6 \div 16 # 3 /\ Top5 \in 1..16
            /\ ~(Top5 = 14 /\ m_gpuver = AFUC_A7XX) =>
        LET e == IF m_gpuver = AFUC_A7XX THEN s_aluimm_a7[Top5 + 1]
                 ELSE s_aluimm_a6[Top5 + 1]
        IN  /\ dec.insn.op = e.op
            /\ e.op # "INVALID" =>
                  /\ dec.insn.immed = W.lo
                  /\ dec.insn.is_immed
                  /\ dec.insn.is_1src <=> ~e.has_src1
            /\ e.op = "INVALID" <=> (m_gpuver = AFUC_A7XX /\ Top5 \in {15, 16})
            /\ e.op = "INVALID" => dec.insn.raw = W

Wit_C25_NotImmediateOneSource ==
    /\ Decoded /\ Top5 = 8 /\ m_gpuver = AFUC_A7XX /\ W.lo = 65535
    /\ dec.insn.op = "NOT" /\ dec.insn.is_1src /\ dec.insn.is_immed

\* x >> n over 32 bits, 0 <= n <= 31
Shr32(x, n) ==
    IF n >= 16 THEN U32(0, x.hi \div Pow2(n - 16))
    ELSE U32(x.hi \div Pow2(n),
             (x.lo \div Pow2(n) + (x.hi % Pow2(n)) * Pow2(16 - n)) % 65536)

\* the 32-bit value with exactly bits l..h set, l <= h
BitsMask(l, h) ==
    U32(IF h >= 16 THEN Pow2(h - 15) - Pow2((IF l >= 16 THEN l ELSE 16) - 16) ELSE 0,
        IF l <= 15 THEN Pow2((IF h <= 15 THEN h ELSE 15) + 1) - Pow2(l) ELSE 0)

\* the value of an IL expression built by the bitfield cases, in a machine
\* state regs (register number -> 32-bit value); shift counts are constants
RECURSIVE IlValue(_, _)
IlValue(e, regs) ==
    CASE e[1] = "Const" -> e[3]
      [] e[1] = "Register" -> regs[e[3]]
      [] e[1] = "And" -> And32(IlValue(e[3], regs), IlValue(e[4], regs))
      [] e[1] = "Or" -> Or32(IlValue(e[3], regs), IlValue(e[4], regs))
      [] e[1] = "ShiftLeft" -> Shl32(IlValue(e[3], regs), ToInt32(e[4][3]))
      [] e[1] = "LogicalShiftRight" -> Shr32(IlValue(e[3], regs), ToInt32(e[4][3]))

\* register contents the bitfield results are compared on
RegValues == {U32(0, 0), U32(65535, 65535), U32(42435, 3990)}

\* the machine states over the registers an instruction names
RegStates(insn) ==
    [{afuc_dst_reg(insn.dst_enc), afuc_src_reg(insn.src1_enc)} -> RegValues]

\* the value of a source operand: register 0 reads as zero
SrcValue(enc, regs) ==
    IF afuc_src_reg(enc) = REG_R00 THEN U32(0, 0) ELSE regs[afuc_src_reg(enc)]

\* C26: BFI is a read-modify-write of the destination: for lo <= hi,
\* including the full-width field lo = 0, hi = 31, the value written is
\* (old_dst AND NOT M) OR ((src << lo) AND M) with M = bits lo..hi, old_dst
\* being the destination register under the destination mapping.
Claim_C26_BitfieldInsert ==
    LiftDone /\ dec.insn.op = "BFI" /\ dec.insn.lo <= dec.insn.hi
             /\ afuc_dst_reg(dec.insn.dst_enc) # REG_R00 =>
        LET i == dec.insn
            M == BitsMask(i.lo, i.hi)
            st == lifted.il[1]
        IN  /\ Len(lifted.il) = 1
            /\ st[1] = "SetRegister" /\ st[3] = afuc_dst_reg(i.dst_enc)
            /\ \A regs \in RegStates(i) :
                  IlValue(st[4], regs) =
                      Or32(And32(regs[afuc_dst_reg(i.dst_enc)], Not32(M)),
                           And32(Shl32(SrcValue(i.src1_enc, regs), i.lo), M))

\* C27: UBFX: for lo <= hi, including width hi - lo + 1 = 32, the value
\* written is (src >> lo) AND (2^(hi-lo+1) - 1): the mask has exactly
\* hi - lo + 1 low bits set.
Claim_C27_BitfieldExtract ==
    LiftDone /\ dec.insn.op = "UBFX" /\ dec.insn.lo <= dec.insn.hi
             /\ afuc_dst_reg(dec.insn.dst_enc) # REG_R00 =>
        LET i == dec.insn
            st == lifted.il[1]
        IN  /\ Len(lifted.il) = 1
            /\ st[1] = "SetRegister" /\ st[3] = afuc_dst_reg(i.dst_enc)
            /\ \A regs \in RegStates(i) :
                  IlValue(st[4], regs) =
                      And32(Shr32(SrcValue(i.src1_enc, regs), i.lo),
                            BitsMask(0, i.hi - i.lo))

\* C28: the not-taken successor of a conditional branch at A is A + 8 in
\* every view: the false branch of GetInstructionInfo, the lifted IL when
\* both labels resolve, and the lifted IL when a label does not resolve (it
\* does not fall through to A + 4).
Claim_C28_NotTakenSuccessor ==
    dec.ret /\ dec.insn.op \in CondBranchOps =>
        /\ InfoDone =>
              /\ Len(info.result.branches) = 2
              /\ info.result.branches[2][1] = "FalseBranch"
              /\ info.result.branches[2][2] = Add64(addr, ToU64(8))
        /\ LlilDone /\ llil.ret =>
              IlSuccessor(addr, llil.il, llil.len, FALSE) = Add64(addr, ToU64(8))

\* C29: ConvertToNop round-trips through the decoder: for every generation
\* and every length >= 4 the four bytes it writes decode under the same
\* generation to NOP with rep false and payload 0, and the bytes after the
\* fourth are unchanged; for a length < 4 it returns false and leaves the
\* buffer unchanged.
Thm_C29_ConvertToNopRoundTrip ==
    patch.state # "none" =>
        /\ patch.ret <=> len >= 4
        /\ Len(patch.data) = Len(data)
        /\ len < 4 => patch.data = data
        /\ len >= 4 => SubSeq(patch.data, 5, len) = SubSeq(data, 5, len)
        /\ patch.state = "decoded" /\ len >= 4 =>
              /\ patch.dec.ret
              /\ patch.dec.insn.op = "NOP"
              /\ ~patch.dec.insn.rep
              /\ patch.dec.insn.nop_payload = 0
              /\ patch.dec.insn =
                     [ClearedInsn(LoadWord(patch.data)) EXCEPT !.op = "NOP"]

Wit_C29_BranchPatchedUnderA6 ==
    /\ patch.state = "decoded" /\ m_gpuver = AFUC_A6XX /\ len = 8
    /\ dec.insn.op = "CALL"
    /\ patch.data = << 0, 0, 0, 1 >> \o SubSeq(data, 5, 8)
    /\ patch.dec.insn.op = "NOP" /\ patch.dec.insn.raw = U32(256, 0)

\* the records that differ from insn at most in the modifier flags
FlagVariants(insn) ==
    {[insn EXCEPT !.rep = r, !.peek = p, !.xmov = x, !.sds = s, !.preincrement = i] :
        r \in BOOLEAN, p \in BOOLEAN, x \in 0..3, s \in 0..3, i \in BOOLEAN}

\* the operations that access memory or a control / local register
MemOps == {"LOAD", "STORE", "CWRITE", "SWRITE", "CREAD", "SREAD"}

\* the encoding of the base register of a memory operation
BaseEnc(insn) == IF insn.op \in {"STORE", "CWRITE", "SWRITE"} THEN insn.src2_enc
                 ELSE insn.src1_enc

\* C30: the lifted IL does not depend on the modifier flags: records that
\* differ only in rep, peek, xmov, sds or preincrement lift to the same IL;
\* a load, store or register read/write with the pre-increment flag set
\* lifts to the same single load or store and writes no base register.
Thm_C30_FlagsIgnoredByLifter ==
    /\ JustDecoded =>
          \A host \in Hosts(addr, dec.insn) :
              LET il == LiftInsn(host, addr, dec.insn)
              IN  \A v \in FlagVariants(dec.insn) : LiftInsn(host, addr, v) = il
    /\ LiftDone /\ patch.state = "none" =>
        /\ \E host \in Hosts(addr, dec.insn) : lifted.il = LiftInsn(host, addr, dec.insn)
        /\ dec.insn.op \in MemOps /\ dec.insn.preincrement =>
              /\ Len(lifted.il) = 1
              /\ lifted.il[1][1] \in {"Store", "SetRegister", "Nop"}
              /\ RegsWritten(lifted.il[1]) \subseteq
                     (IF dec.insn.op \in {"LOAD", "CREAD", "SREAD"}
                      THEN {afuc_dst_reg(dec.insn.dst_enc)} ELSE {})
              /\ \/ afuc_src_reg(BaseEnc(dec.insn)) \notin RegsWritten(lifted.il[1])
                 \/ /\ dec.insn.op \in {"LOAD", "CREAD", "SREAD"}
                    /\ afuc_src_reg(BaseEnc(dec.insn)) = afuc_dst_reg(dec.insn.dst_enc)

Wit_C30_PreincrementStore ==
    /\ LiftDone /\ dec.insn.op = "STORE" /\ dec.insn.preincrement /\ dec.insn.rep
    /\ dec.insn.src2_enc = 1 /\ dec.insn.src1_enc = 2 /\ dec.insn.immed = 4095
    /\ lifted.il = << << "Store", 4,
                         << "Add", 4, Register(1), Const(ToU32(4095)) >>,
                         Register(2) >> >>

====
